---------------------------- MODULE Spec2Model ----------------------------
(***************************************************************************)
(* Model of the streaming and polling core of the Exa Effect wrapper:      *)
(*   - toExaError, the shared error normalisation, with tryPromiseExa and  *)
(*     makeExaService, which use it as their catch (SpecService);          *)
(*   - streamFromAsyncGenerator, the generator-to-stream adapter           *)
(*     (Stream.unwrapScoped over Effect.acquireRelease over                *)
(*     Stream.fromAsyncIterable) (SpecAdapter);                            *)
(*   - Exa.parseSSEStream, the blocking SSE consumer of the client         *)
(*     (SpecSSE);                                                          *)
(*   - Exa.streamAnswer with Exa.processChunk, the incremental SSE         *)
(*     consumer (SpecAnswer; SpecConsumers runs either consumer,           *)
(*     SpecTwoCalls runs one call of each at the same time; SpecDecoder    *)
(*     applies processChunk to one payload);                               *)
(*   - the terminal-state poller behind waitUntilIdle, pollUntilFinished   *)
(*     and waitUntilCompleted (SpecPoll).                                  *)
(* Each component has its own specification; the variables of the other    *)
(* components stay at their idle value.                                    *)
(***************************************************************************)
EXTENDS Integers, Sequences, FiniteSets, TLC

(***************************************************************************)
(* Bounds of the model.                                                    *)
(***************************************************************************)
MaxItems == 3
MaxTake == 2
MaxLines == 2
MaxChunk == 2
MaxTimeout == 5
MaxInterval == 2
MaxFetchTime == 1
MaxPlan == 3
MaxRuns == 2

(***************************************************************************)
(* JavaScript values, as far as toExaError looks at them.  A primitive is  *)
(* undefined, a number or a string (a sequence of characters).             *)
(***************************************************************************)
Undefined == [k |-> "undefined", n |-> 0, s |-> <<>>]
Num(n) == [k |-> "number", n |-> n, s |-> <<>>]
Str(s) == [k |-> "string", n |-> 0, s |-> s]

NoResponse == [present |-> FALSE, status |-> Undefined, statusCode |-> Undefined]
Response(st, sc) == [present |-> TRUE, status |-> st, statusCode |-> sc]

\* new ExaError(message, statusCode)
NewExaError(message, status) ==
  [kind |-> "ExaError", status |-> Undefined, statusCode |-> Num(status),
   response |-> NoResponse, message |-> Str(message), text |-> <<>>]

\* a plain object { status, statusCode, response, message }
Obj(st, sc, resp, msg) ==
  [kind |-> "object", status |-> st, statusCode |-> sc,
   response |-> resp, message |-> msg, text |-> <<>>]

\* a thrown primitive string
StrValue(s) ==
  [kind |-> "string", status |-> Undefined, statusCode |-> Undefined,
   response |-> NoResponse, message |-> Undefined, text |-> s]

NoValue ==
  [kind |-> "none", status |-> Undefined, statusCode |-> Undefined,
   response |-> NoResponse, message |-> Undefined, text |-> <<>>]

Digits == {"0", "1", "2", "3", "4", "5", "6", "7", "8", "9"}

DigitVal(c) ==
  CASE c = "0" -> 0 [] c = "1" -> 1 [] c = "2" -> 2 [] c = "3" -> 3
    [] c = "4" -> 4 [] c = "5" -> 5 [] c = "6" -> 6 [] c = "7" -> 7
    [] c = "8" -> 8 [] c = "9" -> 9

\* the value of the longest prefix of digits of s, starting from acc;
\* seen tells whether a digit was read
RECURSIVE ParseDigits(_, _, _)
ParseDigits(s, acc, seen) ==
  IF s # <<>> /\ Head(s) \in Digits
    THEN ParseDigits(Tail(s), acc * 10 + DigitVal(Head(s)), TRUE)
    ELSE [nan |-> ~seen, n |-> acc]

RECURSIVE SkipSpaces(_)
SkipSpaces(s) ==
  IF s # <<>> /\ Head(s) = " " THEN SkipSpaces(Tail(s)) ELSE s

\* parseInt(val, 10): leading white space, an optional sign, then digits
ParseInt(str) ==
  LET s == SkipSpaces(str)
      neg == s # <<>> /\ Head(s) = "-"
      body == IF s # <<>> /\ Head(s) \in {"-", "+"} THEN Tail(s) ELSE s
      r == ParseDigits(body, 0, FALSE)
  IN  [nan |-> r.nan, n |-> IF neg THEN 0 - r.n ELSE r.n]

\* coerceStatus: a number as it is, a string through parseInt, else undefined
coerceStatus(val) ==
  IF val.k = "number" THEN val
  ELSE IF val.k = "string" /\ ~ParseInt(val.s).nan THEN Num(ParseInt(val.s).n)
  ELSE Undefined

\* a ?? b
Nullish(a, b) == IF a # Undefined THEN a ELSE b

\* String(e)
Stringify(e) ==
  IF e.kind = "string" THEN e.text
  ELSE <<"[", "o", "b", "j", "e", "c", "t", " ", "O", "b", "j", "e", "c", "t", "]">>

DefaultStatus == 500

\* a normalisation that looks at the nested response first
toExaErrorResponseFirst(e) ==
  IF e.kind = "ExaError" THEN e
  ELSE
    LET objStatus == Nullish(coerceStatus(e.status), coerceStatus(e.statusCode))
        respStatus == Nullish(coerceStatus(e.response.status),
                              coerceStatus(e.response.statusCode))
        status ==
          IF e.kind # "object" THEN DefaultStatus
          ELSE IF e.response.present /\ respStatus # Undefined THEN respStatus.n
          ELSE IF objStatus # Undefined THEN objStatus.n
          ELSE DefaultStatus
        message ==
          IF e.kind = "object" /\ e.message.k = "string"
            THEN e.message.s ELSE Stringify(e)
    IN  NewExaError(message, status)

toExaError(e) ==
  IF e.kind = "ExaError" THEN e
  ELSE
    LET objStatus == Nullish(coerceStatus(e.status), coerceStatus(e.statusCode))
        respStatus == Nullish(coerceStatus(e.response.status),
                              coerceStatus(e.response.statusCode))
        status ==
          IF e.kind # "object" THEN DefaultStatus
          ELSE IF objStatus # Undefined THEN objStatus.n
          ELSE IF e.response.present /\ respStatus # Undefined THEN respStatus.n
          ELSE DefaultStatus
        message ==
          IF e.kind = "object" /\ e.message.k = "string"
            THEN e.message.s ELSE Stringify(e)
    IN  NewExaError(message, status)

\* values a source's next() may reject with
ThrownValues ==
  { NewExaError(<<"N", "F">>, 404),
    Obj(Num(429), Undefined, NoResponse, Str(<<"R", "L">>)),
    Obj(Undefined, Str(<<"4", "0", "1">>), NoResponse, Undefined),
    Obj(Str(<<"a">>), Undefined, Response(Num(503), Undefined), Str(<<"S", "U">>)),
    Obj(Num(400), Undefined, Response(Num(503), Undefined), Num(7)),
    StrValue(<<"e", "r", "r">>) }

(***************************************************************************)
(* The generator-to-stream adapter.                                        *)
(*                                                                         *)
(* The source is an async generator in the shape of the test suite's       *)
(* createMockAsyncGenerator: it yields values[1..n] in order; after them   *)
(* next() either reports done or rejects with the value thrown.  return()  *)
(* may reject.                                                             *)
(*                                                                         *)
(* One run of the stream:                                                  *)
(*   built        the stream value exists, nothing has been acquired       *)
(*   acquired     the outer scope holds the generator and its finalizer    *)
(*   iterating    Stream.fromAsyncIterable holds the iterator and its own  *)
(*                finalizer; the consumer may pull                         *)
(*   awaitNext    a next() promise is pending                              *)
(*   closingInner, closingOuter   the scopes close, innermost first        *)
(*   closed       all finalizers have run                                  *)
(*   done         the exit has been delivered to the caller                *)
(***************************************************************************)
VARIABLES
  values,          \* what the source yields, in order
  srcEnd,          \* "done" or "throw": what next() does after the values
  thrown,          \* the value next() rejects with when srcEnd = "throw"
  index,           \* the source's position
  consumer,        \* how the stream is consumed
  phase,           \* position of the run
  finalizers,      \* finalizers registered in the open scopes
  makeCalls,       \* calls of make()
  nextCalls,       \* calls of gen.next()
  returnCalls,     \* calls of gen.return()
  emitted,         \* items delivered downstream
  ending,          \* why the run is ending
  releaseDefects,  \* finalizers whose return() promise rejected
  pulledAfterReturn, \* a next() was issued after a return()
  exit,            \* the exit delivered to the caller
  run,             \* which run of the stream value this is
  created,         \* the generators make() has created, all runs together
  runSources       \* the generator each run acquired, in the order of the runs

\* run, created and runSources go across the runs of one stream value; the
\* others describe the current run
runVars == <<run, created, runSources>>

adapterVars ==
  <<values, srcEnd, thrown, index, consumer, phase, finalizers, makeCalls,
    nextCalls, returnCalls, emitted, ending, releaseDefects,
    pulledAfterReturn, exit, runVars>>

\* the state of the blocking SSE consumer (see Exa.parseSSEStream below)
VARIABLES
  transcript,       \* the bytes of the response body
  pos,              \* bytes handed out so far
  decoderPending,   \* bytes the TextDecoder holds back
  buffer,           \* the pending text after the last line break
  pc,               \* "read": awaiting reader.read(); "exited": returned
  promise,          \* the promise returned to the caller
  locked,           \* the reader holds the lock of the body
  readAfterSettle,  \* reader.read() was called on a settled promise
  releaseLockCalls, \* calls of reader.releaseLock()
  resolveCalls,     \* calls of resolve
  rejectCalls,      \* calls of reject
  lineAfterSettle,  \* the for loop looked at a line on a settled promise
  terminalSeen,     \* the first complete or error payload the loop reached
  lockThrows,       \* the reader is one whose releaseLock() throws
  lastRead          \* how the last reader.read() ended

sseVars ==
  <<transcript, pos, decoderPending, buffer, pc, promise, locked,
    readAfterSettle, releaseLockCalls, resolveCalls, rejectCalls,
    lineAfterSettle, terminalSeen, lockThrows, lastRead>>

\* the state of the incremental SSE consumer (see Exa.streamAnswer below)
VARIABLES
  ansTranscript,     \* the bytes of the response body
  ansPos,            \* bytes handed out so far
  ansDecoderPending, \* bytes the TextDecoder holds back
  ansBuffer,         \* the pending text after the last line break
  ansLines,          \* the lines the for loop has still to look at
  ansPc,             \* "read", "yield", "flushYield", "done" or "failed"
  ansYielded,        \* the Answer Chunks handed to the consumer, in order
  ansLocked,         \* the reader holds the lock of the body
  ansReleaseCalls,   \* calls of reader.releaseLock()
  ansReadAfterRelease, \* reader.read() was called after releaseLock()
  ansEnding,         \* how the generator finished
  ansLastRead        \* how the last reader.read() ended

answerVars ==
  <<ansTranscript, ansPos, ansDecoderPending, ansBuffer, ansLines, ansPc,
    ansYielded, ansLocked, ansReleaseCalls, ansReadAfterRelease, ansEnding,
    ansLastRead>>

\* the state of one call of the chunk decoder (see Exa.processChunk below)
VARIABLES
  decChunkData,  \* the parsed Event Payload handed to processChunk
  decPc,         \* "parsed", then "decoded" or "threw"
  decChunk,      \* the Answer Chunk processChunk returned
  decYields      \* the caller's filter lets the chunk through

decoderVars == <<decChunkData, decPc, decChunk, decYields>>

\* the state of a service made by makeExaService and of one call through
\* tryPromiseExa (see below)
VARIABLES
  config,        \* the ExaConfig: client and apiKey
  envApiKey,     \* process.env.EXA_API_KEY
  svcPc,         \* "built", "ready", "failed", "callSucceeded", "callFailed"
  svcExit,       \* the exit of the Effect returned by makeExaService
  newExaCalls,   \* calls of the Exa constructor
  wrappedClient, \* the client the service wraps: "given" or "new"
  clientApiKey,  \* the key a constructed client sends
  callOutcome,   \* what the client's method does when called
  callExit       \* the exit of the Effect built by tryPromiseExa

serviceVars ==
  <<config, envApiKey, svcPc, svcExit, newExaCalls, wrappedClient,
    clientApiKey, callOutcome, callExit>>

\* the state of one poll session (see the terminal-state poller below)
VARIABLES
  site,          \* the use site: which statuses end the session, and how
  timeout,       \* the timeout of the session, in ticks
  interval,      \* the interval between two fetches, in ticks
  plan,          \* the statuses the first fetches return, in order
  pollPc,        \* "top", "fetching", "sleeping", "resolved", "rejected"
  now,           \* ticks elapsed since the session started
  fetchCalls,    \* calls of the status-fetch operation
  observerCalls, \* calls of the observer
  pollResult,    \* the record the session resolved with
  pollError,     \* the error the session failed with
  interrupted,   \* the Effect wrapping the session has been interrupted
  fetchAfterInterrupt \* a status fetch was issued after the interruption

pollVars ==
  <<site, timeout, interval, plan, pollPc, now, fetchCalls, observerCalls,
    pollResult, pollError, interrupted, fetchAfterInterrupt>>

vars ==
  <<adapterVars, sseVars, answerVars, decoderVars, serviceVars, pollVars>>

\* what an action of one component leaves alone
notAdapterVars == <<sseVars, answerVars, decoderVars, serviceVars, pollVars>>
notSSEVars == <<adapterVars, answerVars, decoderVars, serviceVars, pollVars>>
notAnswerVars == <<adapterVars, sseVars, decoderVars, serviceVars, pollVars>>
notDecoderVars == <<adapterVars, sseVars, answerVars, serviceVars, pollVars>>
notServiceVars == <<adapterVars, sseVars, answerVars, decoderVars, pollVars>>
notPollVars == <<adapterVars, sseVars, answerVars, decoderVars, serviceVars>>

Values == {"a", "b"}

SeqsUpTo(S, n) == UNION { [1..m -> S] : m \in 0..n }

\* runCollect, Stream.take(n) then runCollect, or a downstream stage that
\* fails on its n-th item
Consumers ==
  { [mode |-> "collect", n |-> 0] }
    \cup { [mode |-> "take", n |-> k] : k \in 1..MaxTake }
    \cup { [mode |-> "failAt", n |-> k] : k \in 1..MaxTake }

DownstreamError == NewExaError(<<"d", "s">>, 400)

NoEnding == [kind |-> "none", error |-> NoValue]
NoExit == [tag |-> "none", error |-> NoValue, items |-> <<>>, defects |-> 0]

\* an adapter that hands the thrown value on as it is
onErrorUnmapped(e) == e

\* the error mapper handed to Stream.fromAsyncIterable
onError(e) == toExaError(e)

\* The exit of the run.  A finalizer built with Effect.promise dies when
\* its promise rejects, and the defect is part of the exit: a run that was
\* succeeding dies, a run that was failing carries both causes.
ExitOf(end, items, defects) ==
  [tag |-> IF defects > 0 /\ end.kind = "Success" THEN "Die" ELSE end.kind,
   error |-> end.error,
   items |-> IF end.kind = "Success" /\ defects = 0 THEN items ELSE <<>>,
   defects |-> defects]

\* scopes close innermost first
ClosingPhase(fins) == IF "inner" \in fins THEN "closingInner" ELSE "closingOuter"

AdapterInit ==
  /\ values \in SeqsUpTo(Values, MaxItems)
  /\ srcEnd \in {"done", "throw"}
  /\ thrown \in IF srcEnd = "throw" THEN ThrownValues ELSE {NoValue}
  /\ consumer \in Consumers
  /\ index = 0
  /\ phase = "built"
  /\ finalizers = {}
  /\ makeCalls = 0
  /\ nextCalls = 0
  /\ returnCalls = 0
  /\ emitted = <<>>
  /\ ending = NoEnding
  /\ releaseDefects = 0
  /\ pulledAfterReturn = FALSE
  /\ exit = NoExit
  /\ run = 1
  /\ created = 0
  /\ runSources = <<>>

\* an adapter that creates the generator with no release registered
AcquireNoFinalizer ==
  /\ phase = "built"
  /\ phase' = "acquired"
  /\ makeCalls' = makeCalls + 1
  /\ created' = created + 1
  /\ runSources' = Append(runSources, created')
  /\ UNCHANGED <<values, srcEnd, thrown, index, consumer, finalizers,
                 nextCalls, returnCalls, emitted, ending, releaseDefects,
                 pulledAfterReturn, exit, run>>
  /\ UNCHANGED notAdapterVars

\* an adapter that calls make() when the stream value is built and hands
\* every run the generator it got then
AcquireSharedSource ==
  /\ phase = "built"
  /\ phase' = "acquired"
  /\ makeCalls' = IF created = 0 THEN makeCalls + 1 ELSE makeCalls
  /\ created' = 1
  /\ runSources' = Append(runSources, 1)
  /\ finalizers' = finalizers \cup {"outer"}
  /\ UNCHANGED <<values, srcEnd, thrown, index, consumer, nextCalls,
                 returnCalls, emitted, ending, releaseDefects,
                 pulledAfterReturn, exit, run>>
  /\ UNCHANGED notAdapterVars

\* Effect.acquireRelease(Effect.sync(() => make()), gen => gen.return()):
\* make() is called when the run reaches the acquisition
Acquire ==
  /\ phase = "built"
  /\ phase' = "acquired"
  /\ makeCalls' = makeCalls + 1
  /\ created' = created + 1
  /\ runSources' = Append(runSources, created')
  /\ finalizers' = finalizers \cup {"outer"}
  /\ UNCHANGED <<values, srcEnd, thrown, index, consumer, nextCalls,
                 returnCalls, emitted, ending, releaseDefects,
                 pulledAfterReturn, exit, run>>
  /\ UNCHANGED notAdapterVars

\* Effect.map(gen => Stream.fromAsyncIterable(gen, toExaError)): the inner
\* stream acquires gen[Symbol.asyncIterator](), the generator itself, and
\* registers its own finalizer calling iterator.return()
FromAsyncIterable ==
  /\ phase = "acquired"
  /\ phase' = "iterating"
  /\ finalizers' = finalizers \cup {"inner"}
  /\ UNCHANGED <<values, srcEnd, thrown, index, consumer, makeCalls,
                 nextCalls, returnCalls, emitted, ending, releaseDefects,
                 pulledAfterReturn, exit>>
  /\ UNCHANGED runVars
  /\ UNCHANGED notAdapterVars

\* the consumer asks for the next item: iterator.next() is called
Pull ==
  /\ phase = "iterating"
  /\ phase' = "awaitNext"
  /\ nextCalls' = nextCalls + 1
  /\ pulledAfterReturn' = (pulledAfterReturn \/ returnCalls > 0)
  /\ UNCHANGED <<values, srcEnd, thrown, index, consumer, finalizers,
                 makeCalls, returnCalls, emitted, ending, releaseDefects,
                 exit>>
  /\ UNCHANGED runVars
  /\ UNCHANGED notAdapterVars

\* an adapter that keeps pulling after the consumer has all it asked for
NextValueNoStop ==
  /\ phase = "awaitNext"
  /\ index < Len(values)
  /\ index' = index + 1
  /\ emitted' = IF consumer.mode = "take" /\ Len(emitted) >= consumer.n
                  THEN emitted ELSE Append(emitted, values[index + 1])
  /\ phase' = "iterating"
  /\ UNCHANGED <<values, srcEnd, thrown, consumer, finalizers, makeCalls,
                 nextCalls, returnCalls, ending, releaseDefects,
                 pulledAfterReturn, exit>>
  /\ UNCHANGED runVars
  /\ UNCHANGED notAdapterVars

\* an adapter that hands the items downstream newest first
NextValueReordered ==
  /\ phase = "awaitNext"
  /\ index < Len(values)
  /\ index' = index + 1
  /\ emitted' = <<values[index + 1]>> \o emitted
  /\ IF consumer.mode = "take" /\ Len(emitted') = consumer.n
       THEN /\ ending' = [kind |-> "Success", error |-> NoValue]
            /\ phase' = ClosingPhase(finalizers)
       ELSE IF consumer.mode = "failAt" /\ Len(emitted') = consumer.n
         THEN /\ ending' = [kind |-> "Fail", error |-> DownstreamError]
              /\ phase' = ClosingPhase(finalizers)
         ELSE /\ ending' = ending
              /\ phase' = "iterating"
  /\ UNCHANGED <<values, srcEnd, thrown, consumer, finalizers, makeCalls,
                 nextCalls, returnCalls, releaseDefects, pulledAfterReturn,
                 exit>>
  /\ UNCHANGED runVars
  /\ UNCHANGED notAdapterVars

\* next() resolved with { value, done: false }: the item goes downstream
NextValue ==
  /\ phase = "awaitNext"
  /\ index < Len(values)
  /\ index' = index + 1
  /\ emitted' = Append(emitted, values[index + 1])
  /\ IF consumer.mode = "take" /\ Len(emitted') = consumer.n
       THEN /\ ending' = [kind |-> "Success", error |-> NoValue]
            /\ phase' = ClosingPhase(finalizers)
       ELSE IF consumer.mode = "failAt" /\ Len(emitted') = consumer.n
         THEN /\ ending' = [kind |-> "Fail", error |-> DownstreamError]
              /\ phase' = ClosingPhase(finalizers)
         ELSE /\ ending' = ending
              /\ phase' = "iterating"
  /\ UNCHANGED <<values, srcEnd, thrown, consumer, finalizers, makeCalls,
                 nextCalls, returnCalls, releaseDefects, pulledAfterReturn,
                 exit>>
  /\ UNCHANGED runVars
  /\ UNCHANGED notAdapterVars

\* next() resolved with { done: true }: the stream ends
NextDone ==
  /\ phase = "awaitNext"
  /\ index = Len(values)
  /\ srcEnd = "done"
  /\ ending' = [kind |-> "Success", error |-> NoValue]
  /\ phase' = ClosingPhase(finalizers)
  /\ UNCHANGED <<values, srcEnd, thrown, index, consumer, finalizers,
                 makeCalls, nextCalls, returnCalls, emitted, releaseDefects,
                 pulledAfterReturn, exit>>
  /\ UNCHANGED runVars
  /\ UNCHANGED notAdapterVars

\* next() rejected: the stream fails with the mapped error
NextThrows ==
  /\ phase = "awaitNext"
  /\ index = Len(values)
  /\ srcEnd = "throw"
  /\ ending' = [kind |-> "Fail", error |-> onError(thrown)]
  /\ phase' = ClosingPhase(finalizers)
  /\ UNCHANGED <<values, srcEnd, thrown, index, consumer, finalizers,
                 makeCalls, nextCalls, returnCalls, emitted, releaseDefects,
                 pulledAfterReturn, exit>>
  /\ UNCHANGED runVars
  /\ UNCHANGED notAdapterVars

\* the fiber running the stream is interrupted, or its scope is torn down
Interrupt ==
  /\ phase \in {"acquired", "iterating", "awaitNext"}
  /\ ending' = [kind |-> "Interrupt", error |-> NoValue]
  /\ phase' = ClosingPhase(finalizers)
  /\ UNCHANGED <<values, srcEnd, thrown, index, consumer, finalizers,
                 makeCalls, nextCalls, returnCalls, emitted, releaseDefects,
                 pulledAfterReturn, exit>>
  /\ UNCHANGED runVars
  /\ UNCHANGED notAdapterVars

\* the finalizer of Stream.fromAsyncIterable: iterator.return()
ReleaseInner ==
  /\ phase = "closingInner"
  /\ returnCalls' = returnCalls + 1
  /\ \E rejects \in BOOLEAN :
       releaseDefects' = IF rejects THEN releaseDefects + 1 ELSE releaseDefects
  /\ finalizers' = finalizers \ {"inner"}
  /\ phase' = "closingOuter"
  /\ UNCHANGED <<values, srcEnd, thrown, index, consumer, makeCalls,
                 nextCalls, emitted, ending, pulledAfterReturn, exit>>
  /\ UNCHANGED runVars
  /\ UNCHANGED notAdapterVars

\* the finalizer of streamFromAsyncGenerator: await gen.return?.(undefined)
ReleaseOuter ==
  /\ phase = "closingOuter"
  /\ IF "outer" \in finalizers
       THEN /\ returnCalls' = returnCalls + 1
            /\ \E rejects \in BOOLEAN :
                 releaseDefects' =
                   IF rejects THEN releaseDefects + 1 ELSE releaseDefects
       ELSE UNCHANGED <<returnCalls, releaseDefects>>
  /\ finalizers' = finalizers \ {"outer"}
  /\ phase' = "closed"
  /\ UNCHANGED <<values, srcEnd, thrown, index, consumer, makeCalls,
                 nextCalls, emitted, ending, pulledAfterReturn, exit>>
  /\ UNCHANGED runVars
  /\ UNCHANGED notAdapterVars

\* the run's exit reaches the caller
Deliver ==
  /\ phase = "closed"
  /\ exit' = ExitOf(ending, emitted, releaseDefects)
  /\ phase' = "done"
  /\ UNCHANGED <<values, srcEnd, thrown, index, consumer, finalizers,
                 makeCalls, nextCalls, returnCalls, emitted, ending,
                 releaseDefects, pulledAfterReturn>>
  /\ UNCHANGED runVars
  /\ UNCHANGED notAdapterVars

\* The stream value is run again, by the same consumer or another: the
\* Effect inside Stream.unwrapScoped is run again, nothing of the earlier
\* run is kept, and make() will build a generator of its own.
Rerun ==
  /\ phase = "done"
  /\ run < MaxRuns
  /\ run' = run + 1
  /\ consumer' \in Consumers
  /\ index' = 0
  /\ phase' = "built"
  /\ finalizers' = {}
  /\ makeCalls' = 0
  /\ nextCalls' = 0
  /\ returnCalls' = 0
  /\ emitted' = <<>>
  /\ ending' = NoEnding
  /\ releaseDefects' = 0
  /\ pulledAfterReturn' = FALSE
  /\ exit' = NoExit
  /\ UNCHANGED <<values, srcEnd, thrown, created, runSources>>
  /\ UNCHANGED notAdapterVars

AdapterNext ==
  \/ Acquire
  \/ FromAsyncIterable
  \/ Pull
  \/ NextValue
  \/ NextDone
  \/ NextThrows
  \/ Interrupt
  \/ ReleaseInner
  \/ ReleaseOuter
  \/ Deliver
  \/ Rerun

(***************************************************************************)
(* Text of a server-sent-event body.  A text is a sequence of characters.  *)
(* The prefix "data: " and the line break are spelled out; a JSON payload  *)
(* is abbreviated to a two-character code word, each character standing    *)
(* for a stretch of the JSON text, so that a payload cut in two is not     *)
(* valid JSON.                                                             *)
(***************************************************************************)
NL == "\n"
WhiteSpace == {" ", "\r", "\t"}
DataPrefix == <<"d", "a", "t", "a", ":", " ">>
DoneMarker == <<"[", "D", "]">>

\* TextDecoder.decode(value, { stream: true }): bytes below 0x80 are the
\* characters themselves; LeadByte followed by ContByte is the one
\* two-byte character; a lead byte at the end of a chunk is kept for the
\* next call; a malformed sequence decodes to U+FFFD
LeadByte == "0xC3"
ContByte == "0xA9"
TwoByteChar == "U+00E9"
Replacement == "U+FFFD"

RECURSIVE DecodeFrom(_, _, _)
DecodeFrom(pending, bytes, out) ==
  IF bytes = <<>> THEN [text |-> out, pending |-> pending]
  ELSE IF pending # <<>>
    THEN IF Head(bytes) = ContByte
           THEN DecodeFrom(<<>>, Tail(bytes), Append(out, TwoByteChar))
           ELSE DecodeFrom(<<>>, bytes, Append(out, Replacement))
    ELSE IF Head(bytes) = LeadByte
           THEN DecodeFrom(<<LeadByte>>, Tail(bytes), out)
    ELSE IF Head(bytes) = ContByte
           THEN DecodeFrom(<<>>, Tail(bytes), Append(out, Replacement))
    ELSE DecodeFrom(<<>>, Tail(bytes), Append(out, Head(bytes)))

decode(pending, value) == DecodeFrom(pending, value, <<>>)

\* the parsed Event Payloads: the JSON value null, or an object
\* (hasDelta: choices[0].delta is there; content: its content; citations:
\* the citations field, which may be missing, null, a string, a list or a
\* non-zero number; otherContent: a content field anywhere else)
NoCitations == [k |-> "undefined", s |-> <<>>, items |-> <<>>]
CitationsNull == [k |-> "null", s |-> <<>>, items |-> <<>>]
CitationsString(s) == [k |-> "string", s |-> s, items |-> <<>>]
CitationsArray(items) == [k |-> "array", s |-> <<>>, items |-> items]
CitationsNumber == [k |-> "number", s |-> <<>>, items |-> <<>>]

Payload(tag, data, hasError, hasMessage, message) ==
  [isNull |-> FALSE, tag |-> tag, data |-> data, hasError |-> hasError,
   hasMessage |-> hasMessage, message |-> message,
   hasDelta |-> FALSE, content |-> Undefined, citations |-> NoCitations,
   otherContent |-> Undefined]
NullPayload ==
  [isNull |-> TRUE, tag |-> "", data |-> 0, hasError |-> FALSE,
   hasMessage |-> FALSE, message |-> "",
   hasDelta |-> FALSE, content |-> Undefined, citations |-> NoCitations,
   otherContent |-> Undefined]

\* an answer payload { choices: [{ delta: { content } }], citations }
AnswerPayload(hasDelta, content, citations) ==
  [Payload("", 0, FALSE, FALSE, "") EXCEPT
     !.hasDelta = hasDelta, !.content = content, !.citations = citations]

\* a citation as the server sends it; score is a field the client drops
ServerCitation ==
  [id |-> "c1", url |-> "u1", title |-> "t1", score |-> 1]

\* JSON.parse on the code words: ok = FALSE stands for a SyntaxError
JSONParse(jsonStr) ==
  CASE jsonStr = <<"C", "1">> ->
         [ok |-> TRUE, val |-> Payload("complete", 1, FALSE, FALSE, "")]
    [] jsonStr = <<"C", "2">> ->
         [ok |-> TRUE, val |-> Payload("complete", 2, FALSE, FALSE, "")]
    [] jsonStr = <<"E", "b">> ->
         [ok |-> TRUE, val |-> Payload("error", 0, TRUE, TRUE, "boom")]
    [] jsonStr = <<"E", "e">> ->
         [ok |-> TRUE, val |-> Payload("error", 0, TRUE, TRUE, "")]
    [] jsonStr = <<"E", "n">> ->
         [ok |-> TRUE, val |-> Payload("error", 0, FALSE, FALSE, "")]
    [] jsonStr = <<"P", "g">> ->
         [ok |-> TRUE, val |-> Payload("progress", 0, FALSE, FALSE, "")]
    [] jsonStr = <<"O", "t">> ->
         [ok |-> TRUE, val |-> Payload("", 0, FALSE, FALSE, "")]
    [] jsonStr = <<"n", "u">> ->
         [ok |-> TRUE, val |-> NullPayload]
    [] jsonStr = <<"H", "i">> ->
         [ok |-> TRUE,
          val |-> AnswerPayload(TRUE, Str(<<"H", "i">>), NoCitations)]
    [] jsonStr = <<"R", "f">> ->
         [ok |-> TRUE,
          val |-> AnswerPayload(FALSE, Undefined,
                                CitationsArray(<<ServerCitation>>))]
    [] jsonStr = <<"R", "0">> ->
         [ok |-> TRUE,
          val |-> AnswerPayload(FALSE, Undefined, CitationsArray(<<>>))]
    [] jsonStr = <<"H", "n">> ->
         [ok |-> TRUE,
          val |-> AnswerPayload(TRUE, Str(<<"Y", "o">>),
                                CitationsString(<<"n", "u", "l", "l">>))]
    [] jsonStr = <<"N", "n">> ->
         [ok |-> TRUE,
          val |-> AnswerPayload(TRUE, Undefined,
                                CitationsString(<<"n", "u", "l", "l">>))]
    [] jsonStr = <<"E", "0">> ->
         [ok |-> TRUE, val |-> AnswerPayload(TRUE, Str(<<>>), NoCitations)]
    [] jsonStr = <<"R", "x">> ->
         [ok |-> TRUE,
          val |-> AnswerPayload(FALSE, Undefined, CitationsNumber)]
    [] jsonStr = <<"O", "b">> ->
         [ok |-> TRUE, val |-> AnswerPayload(FALSE, Undefined, NoCitations)]
    [] OTHER ->
         [ok |-> FALSE, val |-> NullPayload]

\* s.split("\n")
RECURSIVE SplitFrom(_, _)
SplitFrom(s, cur) ==
  IF s = <<>> THEN <<cur>>
  ELSE IF Head(s) = NL THEN <<cur>> \o SplitFrom(Tail(s), <<>>)
  ELSE SplitFrom(Tail(s), Append(cur, Head(s)))

Split(s) == SplitFrom(s, <<>>)

\* line.startsWith(p)
StartsWith(s, p) == Len(s) >= Len(p) /\ SubSeq(s, 1, Len(p)) = p

RECURSIVE TrimStart(_)
TrimStart(s) ==
  IF s # <<>> /\ Head(s) \in WhiteSpace THEN TrimStart(Tail(s)) ELSE s

RECURSIVE TrimEnd(_)
TrimEnd(s) ==
  IF s # <<>> /\ s[Len(s)] \in WhiteSpace
    THEN TrimEnd(SubSeq(s, 1, Len(s) - 1)) ELSE s

\* s.trim()
Trim(s) == TrimEnd(TrimStart(s))

\* line.replace(/^data:\s*/, "").trim()
StripData(line) ==
  IF StartsWith(line, <<"d", "a", "t", "a", ":">>)
    THEN Trim(TrimStart(SubSeq(line, 6, Len(line))))
    ELSE Trim(line)

\* the lines of a body
Line(jsonStr) == DataPrefix \o jsonStr
LineKinds ==
  { Line(<<"C", "1">>), Line(<<"C", "2">>), Line(<<"E", "b">>),
    Line(<<"E", "e">>), Line(<<"E", "n">>), Line(<<"P", "g">>),
    Line(<<"n", "u">>), Line(<<"{", "x">>), Line(DoneMarker),
    <<":", LeadByte, ContByte>> }

\* every line but the last ends with a line break; the last may lack it
RECURSIVE Join(_)
Join(ls) == IF ls = <<>> THEN <<>> ELSE Head(ls) \o <<NL>> \o Join(Tail(ls))

Transcripts ==
  LET bodies == { Join(ls) : ls \in SeqsUpTo(LineKinds, MaxLines) }
  IN  bodies \cup { SubSeq(b, 1, Len(b) - 1) : b \in bodies \ {<<>>} }

(***************************************************************************)
(* Exa.parseSSEStream, the blocking SSE consumer.                          *)
(*                                                                         *)
(* The body is the transcript; reader.read() hands out its next bytes in   *)
(* chunks (see ChunkSizes), reports done at its end, or rejects.  One step of   *)
(* the consumer runs from the completion of one read() to the next await   *)
(* or to the end of the promise executor, finally block included.          *)
(***************************************************************************)
InternalServerError == 500

Pending == [state |-> "pending", data |-> 0, cls |-> "", message |-> "", statusCode |-> 0]
Fulfilled(data) ==
  [state |-> "fulfilled", data |-> data, cls |-> "", message |-> "", statusCode |-> 0]
Rejected(cls, message, statusCode) ==
  [state |-> "rejected", data |-> 0, cls |-> cls, message |-> message,
   statusCode |-> statusCode]

\* a promise is settled by the first resolve or reject only
Settle(p, outcome) == IF p.state = "pending" THEN outcome ELSE p

NoTerminal == [seen |-> FALSE, val |-> NullPayload]

\* the state the consumer's code works on within one step
ConsumerState ==
  [promise |-> promise, locked |-> locked,
   releaseLockCalls |-> releaseLockCalls, resolveCalls |-> resolveCalls,
   rejectCalls |-> rejectCalls, lineAfterSettle |-> lineAfterSettle,
   terminalSeen |-> terminalSeen,
   ctl |-> "loop", err |-> Pending]

\* reader.releaseLock(); throws tells whether this call throws
releaseLock(st, throws) ==
  [st EXCEPT !.releaseLockCalls = @ + 1,
             !.locked = IF throws THEN @ ELSE FALSE]

\* resolve(value) and reject(error)
resolve(st, data) ==
  [st EXCEPT !.resolveCalls = @ + 1,
             !.promise = Settle(@, Fulfilled(data))]
reject(st, err) ==
  [st EXCEPT !.rejectCalls = @ + 1, !.promise = Settle(@, err)]

\* chunk.error?.message || "Unknown error"
ErrorMessage(chunk) ==
  IF chunk.hasError /\ chunk.hasMessage /\ chunk.message # ""
    THEN chunk.message ELSE "Unknown error"

\* switch (chunk.tag): the body of the for loop once a payload was parsed
Dispatch(st, chunk, throws) ==
  IF chunk.isNull
    THEN [st EXCEPT !.ctl = "throw",
                    !.err = Rejected("TypeError", "chunk is null", 0)]
  ELSE IF chunk.tag \in {"complete", "error"}
    THEN LET seen == [st EXCEPT !.terminalSeen =
                        IF @.seen THEN @ ELSE [seen |-> TRUE, val |-> chunk]]
             rel == releaseLock(seen, throws)
         IN  IF throws
               THEN [rel EXCEPT !.ctl = "throw",
                                !.err = Rejected("LockError", "releaseLock", 0)]
             ELSE IF chunk.tag = "complete"
               THEN [resolve(rel, chunk.data) EXCEPT !.ctl = "return"]
             ELSE [reject(rel, Rejected("ExaError", ErrorMessage(chunk),
                                        InternalServerError))
                     EXCEPT !.ctl = "return"]
  ELSE st

\* one iteration of: for (const line of lines)
HandleLine(st, line, throws) ==
  LET counted == [st EXCEPT !.lineAfterSettle =
                    @ \/ st.promise.state # "pending"]
      jsonStr == StripData(line)
      parsed == JSONParse(jsonStr)
  IN  IF ~StartsWith(line, DataPrefix) THEN counted
      ELSE IF jsonStr = <<>> \/ jsonStr = DoneMarker THEN counted
      ELSE IF ~parsed.ok THEN counted
      ELSE Dispatch(counted, parsed.val, throws)

\* a for loop whose cases break out of the switch only
RECURSIVE ProcessLinesAll(_, _, _)
ProcessLinesAll(st, lines, throws) ==
  IF lines = <<>> THEN st
  ELSE ProcessLinesAll(HandleLine(st, Head(lines), throws), Tail(lines),
                       throws)

\* the for loop: it stops at the first return or throw
RECURSIVE ProcessLines(_, _, _)
ProcessLines(st, lines, throws) ==
  IF lines = <<>> \/ st.ctl # "loop" THEN st
  ELSE ProcessLines(HandleLine(st, Head(lines), throws), Tail(lines),
                    throws)

\* catch (err) { reject(err) } finally { try { releaseLock() } catch {} }
CatchFinally(st, throws) ==
  LET caught == IF st.ctl = "throw" THEN reject(st, st.err) ELSE st
  IN  IF st.ctl = "loop" THEN st ELSE releaseLock(caught, throws)

\* the consumer's variables after a step that ended in state st
Commit(st) ==
  /\ promise' = st.promise
  /\ locked' = st.locked
  /\ releaseLockCalls' = st.releaseLockCalls
  /\ resolveCalls' = st.resolveCalls
  /\ rejectCalls' = st.rejectCalls
  /\ lineAfterSettle' = st.lineAfterSettle
  /\ terminalSeen' = st.terminalSeen
  /\ pc' = IF st.ctl = "loop" THEN "read" ELSE "exited"

SSEInit ==
  /\ transcript \in Transcripts
  /\ pos = 0
  /\ decoderPending = <<>>
  /\ buffer = <<>>
  /\ pc = "read"
  /\ promise = Pending
  /\ locked = TRUE
  /\ readAfterSettle = FALSE
  /\ releaseLockCalls = 0
  /\ resolveCalls = 0
  /\ rejectCalls = 0
  /\ lineAfterSettle = FALSE
  /\ terminalSeen = NoTerminal
  /\ lockThrows \in BOOLEAN
  /\ lastRead = "none"

\* the sizes of the next chunk: a few bytes, or all the bytes that are left
ChunkSizes(left) == { n \in 1..left : n <= MaxChunk \/ n = left }

\* read() resolved with { done: false, value }: the next n bytes
ReadChunk ==
  /\ pc = "read"
  /\ \E n \in ChunkSizes(Len(transcript) - pos) :
       LET value == SubSeq(transcript, pos + 1, pos + n)
           dec == decode(decoderPending, value)
           lines == Split(buffer \o dec.text)
           st == CatchFinally(
                   ProcessLines(ConsumerState,
                                SubSeq(lines, 1, Len(lines) - 1), lockThrows),
                   lockThrows)
       IN  /\ pos' = pos + n
           /\ decoderPending' = dec.pending
           /\ buffer' = lines[Len(lines)]
           /\ Commit(st)
  /\ readAfterSettle' = (readAfterSettle \/ promise.state # "pending")
  /\ lastRead' = "chunk"
  /\ UNCHANGED <<transcript, lockThrows>>
  /\ UNCHANGED notSSEVars

\* a consumer that leaves the loop at the end of the body and says nothing
ReadDoneNoReject ==
  /\ pc = "read"
  /\ pos = Len(transcript)
  /\ Commit(CatchFinally([ConsumerState EXCEPT !.ctl = "return"], lockThrows))
  /\ readAfterSettle' = (readAfterSettle \/ promise.state # "pending")
  /\ lastRead' = "done"
  /\ UNCHANGED <<transcript, pos, decoderPending, buffer, lockThrows>>
  /\ UNCHANGED notSSEVars

\* read() resolved with { done: true }: break, then reject
ReadDone ==
  /\ pc = "read"
  /\ pos = Len(transcript)
  /\ Commit(CatchFinally(
                [reject(ConsumerState,
                        Rejected("ExaError",
                                 "Stream ended without a completion event.",
                                 InternalServerError))
                   EXCEPT !.ctl = "return"],
                lockThrows))
  /\ readAfterSettle' = (readAfterSettle \/ promise.state # "pending")
  /\ lastRead' = "done"
  /\ UNCHANGED <<transcript, pos, decoderPending, buffer, lockThrows>>
  /\ UNCHANGED notSSEVars

\* read() rejected: the catch block rejects with the error
ReadThrows ==
  /\ pc = "read"
  /\ Commit(CatchFinally(
                [ConsumerState EXCEPT !.ctl = "throw",
                                      !.err = Rejected("ReadError", "read", 0)],
                lockThrows))
  /\ readAfterSettle' = (readAfterSettle \/ promise.state # "pending")
  /\ lastRead' = "error"
  /\ UNCHANGED <<transcript, pos, decoderPending, buffer, lockThrows>>
  /\ UNCHANGED notSSEVars

SSENext == ReadChunk \/ ReadDone \/ ReadThrows

(***************************************************************************)
(* Exa.processChunk, the chunk decoder.                                    *)
(***************************************************************************)
NoChunkCitations == [defined |-> FALSE, items |-> <<>>]

\* { content, citations }
AnswerStreamChunk(content, citations) ==
  [content |-> content, citations |-> citations]

\* c => ({ id: c.id, url: c.url, title: c.title, ... })
MapCitation(c) == [id |-> c.id, url |-> c.url, title |-> c.title]

RECURSIVE MapCitations(_)
MapCitations(items) ==
  IF items = <<>> THEN <<>>
  ELSE <<MapCitation(Head(items))>> \o MapCitations(Tail(items))

\* chunkData.citations as a condition: a list is truthy even when empty
CitationsTruthy(c) ==
  \/ c.k = "array"
  \/ c.k = "number"
  \/ c.k = "string" /\ c.s # <<>>

\* a decoder for which the string "null" is a citations value like any other
processChunkNullStringKept(chunkData) ==
  LET content == IF chunkData.hasDelta THEN chunkData.content ELSE Undefined
      c == chunkData.citations
      wanted == CitationsTruthy(c)
  IN  IF chunkData.isNull \/ (wanted /\ c.k # "array")
        THEN [threw |-> TRUE,
              chunk |-> AnswerStreamChunk(Undefined, NoChunkCitations)]
        ELSE [threw |-> FALSE,
              chunk |-> AnswerStreamChunk(
                          content,
                          IF wanted
                            THEN [defined |-> TRUE,
                                  items |-> MapCitations(c.items)]
                            ELSE NoChunkCitations)]

\* threw: a TypeError, from reading a property of null or from calling
\* .map on a citations value that has none
processChunk(chunkData) ==
  LET content == IF chunkData.hasDelta THEN chunkData.content ELSE Undefined
      c == chunkData.citations
      wanted == CitationsTruthy(c) /\ c # CitationsString(<<"n", "u", "l", "l">>)
  IN  IF chunkData.isNull \/ (wanted /\ c.k # "array")
        THEN [threw |-> TRUE,
              chunk |-> AnswerStreamChunk(Undefined, NoChunkCitations)]
        ELSE [threw |-> FALSE,
              chunk |-> AnswerStreamChunk(
                          content,
                          IF wanted
                            THEN [defined |-> TRUE,
                                  items |-> MapCitations(c.items)]
                            ELSE NoChunkCitations)]

\* chunk.content || chunk.citations
ChunkTruthy(chunk) ==
  \/ chunk.content.k = "string" /\ chunk.content.s # <<>>
  \/ chunk.citations.defined

\* the payloads one call of the decoder may be given: JSON null, and
\* objects with every combination of a delta, its content, a citations
\* field and a content field outside choices[0].delta
ContentValues == {Undefined, Str(<<>>), Str(<<"Y", "o">>), Str(<<"H", "i">>)}
CitationsValues ==
  { NoCitations, CitationsNull, CitationsString(<<>>),
    CitationsString(<<"n", "u", "l", "l">>), CitationsString(<<"x">>),
    CitationsArray(<<>>), CitationsArray(<<ServerCitation>>), CitationsNumber }
OtherContentValues == {Undefined, Str(<<"Z", "z">>)}

DecoderPayloads ==
  {NullPayload} \cup
    { [AnswerPayload(d, c, cit) EXCEPT !.otherContent = o] :
        d \in BOOLEAN, c \in ContentValues, cit \in CitationsValues,
        o \in OtherContentValues }

DecoderInit ==
  /\ decChunkData \in { v \in DecoderPayloads :
                           ~v.hasDelta => v.content = Undefined }
  /\ decPc = "parsed"
  /\ decChunk = AnswerStreamChunk(Undefined, NoChunkCitations)
  /\ decYields = FALSE

\* const chunk = this.processChunk(chunkData);
\* if (chunk.content || chunk.citations) yield chunk
Decode ==
  /\ decPc = "parsed"
  /\ LET r == processChunk(decChunkData)
     IN  /\ decChunk' = r.chunk
         /\ decPc' = IF r.threw THEN "threw" ELSE "decoded"
         /\ decYields' = (~r.threw /\ ChunkTruthy(r.chunk))
  /\ UNCHANGED decChunkData
  /\ UNCHANGED notDecoderVars

DecoderNext == Decode

(***************************************************************************)
(* Exa.streamAnswer, the incremental SSE consumer, from the point where    *)
(* it holds the reader.  It is an async generator: it runs when the        *)
(* consumer asks for the next item and is suspended at each yield, where   *)
(* the consumer may also call return().                                    *)
(*   read        awaiting reader.read()                                    *)
(*   yield       suspended at the yield of the for loop                    *)
(*   flushYield  suspended at the yield of the leftover buffer             *)
(*   done        returned, the finally block has run                       *)
(*   failed      threw, the finally block has run                          *)
(***************************************************************************)
NoChunk == AnswerStreamChunk(Undefined, NoChunkCitations)

\* a loop body whose JSON.parse is not inside try/catch
AnswerLineNoCatch(line) ==
  LET jsonStr == StripData(line)
      parsed == JSONParse(jsonStr)
      r == processChunk(parsed.val)
  IN  IF ~StartsWith(line, DataPrefix) THEN [act |-> "skip", chunk |-> NoChunk]
      ELSE IF jsonStr = <<>> \/ jsonStr = DoneMarker
        THEN [act |-> "skip", chunk |-> NoChunk]
      ELSE IF ~parsed.ok THEN [act |-> "throw", chunk |-> NoChunk]
      ELSE IF r.threw THEN [act |-> "throw", chunk |-> NoChunk]
      ELSE IF ChunkTruthy(r.chunk) THEN [act |-> "yield", chunk |-> r.chunk]
      ELSE [act |-> "skip", chunk |-> NoChunk]

\* one iteration of: for (const line of lines)
AnswerLine(line) ==
  LET jsonStr == StripData(line)
      parsed == JSONParse(jsonStr)
      r == processChunk(parsed.val)
  IN  IF ~StartsWith(line, DataPrefix) THEN [act |-> "skip", chunk |-> NoChunk]
      ELSE IF jsonStr = <<>> \/ jsonStr = DoneMarker
        THEN [act |-> "skip", chunk |-> NoChunk]
      ELSE IF ~parsed.ok THEN [act |-> "skip", chunk |-> NoChunk]
      ELSE IF r.threw THEN [act |-> "throw", chunk |-> NoChunk]
      ELSE IF ChunkTruthy(r.chunk) THEN [act |-> "yield", chunk |-> r.chunk]
      ELSE [act |-> "skip", chunk |-> NoChunk]

\* a for loop that a [DONE] line breaks out of
RECURSIVE RunLoopStopAtDone(_)
RunLoopStopAtDone(lines) ==
  IF lines = <<>> THEN [act |-> "read", chunk |-> NoChunk, rest |-> <<>>]
  ELSE IF StartsWith(Head(lines), DataPrefix)
          /\ StripData(Head(lines)) = DoneMarker
    THEN [act |-> "read", chunk |-> NoChunk, rest |-> <<>>]
  ELSE LET r == AnswerLine(Head(lines))
       IN  IF r.act = "skip" THEN RunLoopStopAtDone(Tail(lines))
           ELSE [act |-> r.act, chunk |-> r.chunk, rest |-> Tail(lines)]

\* the for loop, up to its next yield or throw, or to its end ("read")
RECURSIVE RunLoop(_)
RunLoop(lines) ==
  IF lines = <<>> THEN [act |-> "read", chunk |-> NoChunk, rest |-> <<>>]
  ELSE LET r == AnswerLine(Head(lines))
       IN  IF r.act = "skip" THEN RunLoop(Tail(lines))
           ELSE [act |-> r.act, chunk |-> r.chunk, rest |-> Tail(lines)]

\* a consumer that drops what is left in the buffer at the end
FlushNothing(buf) == [act |-> "skip", chunk |-> NoChunk]

\* the leftover buffer after the loop: everything but the yield is inside
\* try { } catch (e) {}
Flush(buf) ==
  LET leftover == StripData(buf)
      parsed == JSONParse(leftover)
      r == processChunk(parsed.val)
  IN  IF /\ StartsWith(buf, DataPrefix)
         /\ leftover # <<>>
         /\ leftover # DoneMarker
         /\ parsed.ok
         /\ ~r.threw
         /\ ChunkTruthy(r.chunk)
        THEN [act |-> "yield", chunk |-> r.chunk]
        ELSE [act |-> "skip", chunk |-> NoChunk]

\* finally { reader.releaseLock() }, then the generator is finished
Finally(pcNext, how) ==
  /\ ansLocked' = FALSE
  /\ ansReleaseCalls' = ansReleaseCalls + 1
  /\ ansPc' = pcNext
  /\ ansEnding' = how

\* the generator runs the for loop over lines until it stops
Advance(lines) ==
  LET r == RunLoop(lines)
  IN  /\ ansLines' = r.rest
      /\ CASE r.act = "yield" ->
                /\ ansYielded' = Append(ansYielded, r.chunk)
                /\ ansPc' = "yield"
                /\ UNCHANGED <<ansLocked, ansReleaseCalls, ansEnding>>
           [] r.act = "throw" ->
                /\ Finally("failed", "TypeError")
                /\ UNCHANGED ansYielded
           [] OTHER ->
                /\ ansPc' = "read"
                /\ UNCHANGED <<ansYielded, ansLocked, ansReleaseCalls,
                               ansEnding>>

\* the lines of an answer body
AnswerLineKinds ==
  { Line(<<"H", "i">>), Line(<<"R", "f">>), Line(<<"R", "0">>),
    Line(<<"H", "n">>), Line(<<"N", "n">>), Line(<<"E", "0">>),
    Line(<<"R", "x">>), Line(<<"O", "b">>), Line(<<"n", "u">>),
    Line(<<"{", "x">>), Line(DoneMarker), <<":", LeadByte, ContByte>> }

AnswerTranscripts ==
  LET bodies == { Join(ls) : ls \in SeqsUpTo(AnswerLineKinds, MaxLines) }
  IN  bodies \cup { SubSeq(b, 1, Len(b) - 1) : b \in bodies \ {<<>>} }

AnswerInit ==
  /\ ansTranscript \in AnswerTranscripts
  /\ ansPos = 0
  /\ ansDecoderPending = <<>>
  /\ ansBuffer = <<>>
  /\ ansLines = <<>>
  /\ ansPc = "read"
  /\ ansYielded = <<>>
  /\ ansLocked = TRUE
  /\ ansReleaseCalls = 0
  /\ ansReadAfterRelease = FALSE
  /\ ansEnding = "none"
  /\ ansLastRead = "none"

\* a reassembler that assigns the decoded text to the buffer (= for +=)
ReassembleNoCarry(buf, text) ==
  LET lines == Split(text)
  IN  [lines |-> SubSeq(lines, 1, Len(lines) - 1), buffer |-> lines[Len(lines)]]

\* buffer += decoder.decode(value); lines = buffer.split("\n");
\* buffer = lines.pop() || ""
Reassemble(buf, text) ==
  LET lines == Split(buf \o text)
  IN  [lines |-> SubSeq(lines, 1, Len(lines) - 1), buffer |-> lines[Len(lines)]]

\* a client that keeps the pending text in one field, which every
\* streaming call in flight reads and writes
AnswerReadChunkSharedBuffer ==
  /\ ansPc = "read"
  /\ \E n \in ChunkSizes(Len(ansTranscript) - ansPos) :
       LET value == SubSeq(ansTranscript, ansPos + 1, ansPos + n)
           dec == decode(ansDecoderPending, value)
           re == Reassemble(buffer, dec.text)
       IN  /\ ansPos' = ansPos + n
           /\ ansDecoderPending' = dec.pending
           /\ ansBuffer' = re.buffer
           /\ buffer' = re.buffer
           /\ Advance(re.lines)
  /\ ansReadAfterRelease' = (ansReadAfterRelease \/ ~ansLocked)
  /\ ansLastRead' = "chunk"
  /\ UNCHANGED ansTranscript
  /\ UNCHANGED <<transcript, pos, decoderPending, pc, promise, locked,
                 readAfterSettle, releaseLockCalls, resolveCalls, rejectCalls,
                 lineAfterSettle, terminalSeen, lockThrows, lastRead>>
  /\ UNCHANGED <<adapterVars, decoderVars, serviceVars, pollVars>>

\* read() resolved with { done: false, value }: the next n bytes
AnswerReadChunk ==
  /\ ansPc = "read"
  /\ \E n \in ChunkSizes(Len(ansTranscript) - ansPos) :
       LET value == SubSeq(ansTranscript, ansPos + 1, ansPos + n)
           dec == decode(ansDecoderPending, value)
           re == Reassemble(ansBuffer, dec.text)
       IN  /\ ansPos' = ansPos + n
           /\ ansDecoderPending' = dec.pending
           /\ ansBuffer' = re.buffer
           /\ Advance(re.lines)
  /\ ansReadAfterRelease' = (ansReadAfterRelease \/ ~ansLocked)
  /\ ansLastRead' = "chunk"
  /\ UNCHANGED ansTranscript
  /\ UNCHANGED notAnswerVars

\* a consumer for which a body that just ends is a failure
AnswerReadDoneFails ==
  /\ ansPc = "read"
  /\ ansPos = Len(ansTranscript)
  /\ Finally("failed", "ProtocolError")
  /\ ansReadAfterRelease' = (ansReadAfterRelease \/ ~ansLocked)
  /\ ansLastRead' = "done"
  /\ UNCHANGED <<ansTranscript, ansPos, ansDecoderPending, ansBuffer,
                 ansLines, ansYielded>>
  /\ UNCHANGED notAnswerVars

\* read() resolved with { done: true }: break, then the leftover buffer
AnswerReadDone ==
  /\ ansPc = "read"
  /\ ansPos = Len(ansTranscript)
  /\ LET r == Flush(ansBuffer)
     IN  IF r.act = "yield"
           THEN /\ ansYielded' = Append(ansYielded, r.chunk)
                /\ ansPc' = "flushYield"
                /\ UNCHANGED <<ansLocked, ansReleaseCalls, ansEnding>>
           ELSE /\ Finally("done", "complete")
                /\ UNCHANGED ansYielded
  /\ ansReadAfterRelease' = (ansReadAfterRelease \/ ~ansLocked)
  /\ ansLastRead' = "done"
  /\ UNCHANGED <<ansTranscript, ansPos, ansDecoderPending, ansBuffer,
                 ansLines>>
  /\ UNCHANGED notAnswerVars

\* read() rejected: the error leaves the generator through finally
AnswerReadThrows ==
  /\ ansPc = "read"
  /\ Finally("failed", "ReadError")
  /\ ansReadAfterRelease' = (ansReadAfterRelease \/ ~ansLocked)
  /\ ansLastRead' = "error"
  /\ UNCHANGED <<ansTranscript, ansPos, ansDecoderPending, ansBuffer,
                 ansLines, ansYielded>>
  /\ UNCHANGED notAnswerVars

\* the consumer asks for the next item while the generator is suspended
AnswerResume ==
  /\ ansPc \in {"yield", "flushYield"}
  /\ IF ansPc = "yield"
       THEN Advance(ansLines)
       ELSE /\ Finally("done", "complete")
            /\ UNCHANGED <<ansLines, ansYielded>>
  /\ UNCHANGED <<ansTranscript, ansPos, ansDecoderPending, ansBuffer,
                 ansReadAfterRelease, ansLastRead>>
  /\ UNCHANGED notAnswerVars

\* a generator whose release is at the end of the body, not in a finally
\* block: return() at a yield leaves without it
AnswerReturnNoRelease ==
  /\ ansPc \in {"yield", "flushYield"}
  /\ ansPc' = "done"
  /\ ansEnding' = "returned"
  /\ UNCHANGED <<ansTranscript, ansPos, ansDecoderPending, ansBuffer,
                 ansLines, ansYielded, ansLocked, ansReleaseCalls,
                 ansReadAfterRelease, ansLastRead>>
  /\ UNCHANGED notAnswerVars

\* the consumer calls return() while the generator is suspended
AnswerReturn ==
  /\ ansPc \in {"yield", "flushYield"}
  /\ Finally("done", "returned")
  /\ UNCHANGED <<ansTranscript, ansPos, ansDecoderPending, ansBuffer,
                 ansLines, ansYielded, ansReadAfterRelease, ansLastRead>>
  /\ UNCHANGED notAnswerVars

AnswerNext ==
  \/ AnswerReadChunk
  \/ AnswerReadDone
  \/ AnswerReadThrows
  \/ AnswerResume
  \/ AnswerReturn

(***************************************************************************)
(* makeExaService and tryPromiseExa.                                       *)
(*                                                                         *)
(* makeExaService(config) is Effect.try over                               *)
(*   config.client ?? new Exa(config.apiKey, config.baseURL)               *)
(* with toExaError as its catch: nothing runs until the Effect is run.     *)
(* A call of a service method is Effect.tryPromise over the client's       *)
(* method, again with toExaError as its catch.                             *)
(*   built          the Effect of makeExaService exists                    *)
(*   ready, failed  it has been run                                        *)
(*   callSucceeded, callFailed   one method call has been run              *)
(***************************************************************************)
Unauthorized == 401

\* the message of the Exa constructor; its text after "API key " is one item
ApiKeyMessage ==
  <<"A", "P", "I", " ", "k", "e", "y", " ",
    "must be provided as an argument or as an environment variable (EXA_API_KEY)">>

\* a string as a condition
Truthy(v) == v.k = "string" /\ v.s # <<>>

KeyValues == {Undefined, Str(<<>>), Str(<<"k">>)}
EnvValues == {Undefined, Str(<<>>), Str(<<"e">>)}

NoEffectExit == [tag |-> "none", error |-> NoValue]

\* new Exa(apiKey): the key it ends up with, or the error it throws
ExaConstructor(apiKey, env) ==
  LET key == IF Truthy(apiKey) THEN apiKey ELSE env
  IN  IF Truthy(key)
        THEN [threw |-> FALSE, key |-> key, error |-> NoValue]
        ELSE [threw |-> TRUE, key |-> Undefined,
              error |-> NewExaError(ApiKeyMessage, Unauthorized)]

\* what a method of the client may reject with: plain objects with every
\* combination of the fields toExaError looks at, and the values of
\* ThrownValues
StatusValues ==
  {Undefined, Num(429), Num(0), Str(<<"4", "0", "1">>), Str(<<"a">>)}
ResponseValues ==
  { NoResponse, Response(Undefined, Undefined),
    Response(Num(503), Undefined),
    Response(Undefined, Str(<<"5", "0", "2">>)),
    Response(Str(<<"x">>), Num(504)) }
MessageValues == {Undefined, Str(<<"R", "L">>), Num(7)}

Rejections ==
  ThrownValues \cup
    { Obj(st, sc, resp, msg) :
        st \in StatusValues, sc \in StatusValues,
        resp \in ResponseValues, msg \in MessageValues }

\* the method resolves, rejects, or throws before it returns a promise
CallOutcomes ==
  { [kind |-> "resolve", value |-> NoValue] }
    \cup { [kind |-> k, value |-> e] : k \in {"reject", "throw"}, e \in Rejections }

ServiceInit ==
  /\ config \in [client : {"none", "given"}, apiKey : KeyValues]
  /\ envApiKey \in EnvValues
  /\ svcPc = "built"
  /\ svcExit = NoEffectExit
  /\ newExaCalls = 0
  /\ wrappedClient = "none"
  /\ clientApiKey = Undefined
  /\ callOutcome = [kind |-> "resolve", value |-> NoValue]
  /\ callExit = NoEffectExit

\* a factory whose constructor error leaves the Effect as a defect
MakeServiceNoCatch ==
  /\ svcPc = "built"
  /\ IF config.client = "given"
       THEN /\ wrappedClient' = "given"
            /\ svcExit' = [tag |-> "Success", error |-> NoValue]
            /\ svcPc' = "ready"
            /\ UNCHANGED <<newExaCalls, clientApiKey>>
       ELSE LET r == ExaConstructor(config.apiKey, envApiKey)
            IN  /\ newExaCalls' = newExaCalls + 1
                /\ clientApiKey' = r.key
                /\ wrappedClient' = IF r.threw THEN "none" ELSE "new"
                /\ svcExit' = IF r.threw
                                THEN [tag |-> "Die", error |-> r.error]
                                ELSE [tag |-> "Success", error |-> NoValue]
                /\ svcPc' = IF r.threw THEN "failed" ELSE "ready"
  /\ UNCHANGED <<config, envApiKey, callOutcome, callExit>>
  /\ UNCHANGED notServiceVars

\* the Effect of makeExaService is run
MakeService ==
  /\ svcPc = "built"
  /\ IF config.client = "given"
       THEN /\ wrappedClient' = "given"
            /\ svcExit' = [tag |-> "Success", error |-> NoValue]
            /\ svcPc' = "ready"
            /\ UNCHANGED <<newExaCalls, clientApiKey>>
       ELSE LET r == ExaConstructor(config.apiKey, envApiKey)
            IN  /\ newExaCalls' = newExaCalls + 1
                /\ clientApiKey' = r.key
                /\ wrappedClient' = IF r.threw THEN "none" ELSE "new"
                /\ svcExit' = IF r.threw
                                THEN [tag |-> "Fail", error |-> toExaError(r.error)]
                                ELSE [tag |-> "Success", error |-> NoValue]
                /\ svcPc' = IF r.threw THEN "failed" ELSE "ready"
  /\ UNCHANGED <<config, envApiKey, callOutcome, callExit>>
  /\ UNCHANGED notServiceVars

\* tryPromiseExa(thunk) is run and the thunk's promise resolves
CallResolves ==
  /\ svcPc = "ready"
  /\ callOutcome' = [kind |-> "resolve", value |-> NoValue]
  /\ callExit' = [tag |-> "Success", error |-> NoValue]
  /\ svcPc' = "callSucceeded"
  /\ UNCHANGED <<config, envApiKey, svcExit, newExaCalls, wrappedClient,
                 clientApiKey>>
  /\ UNCHANGED notServiceVars

\* tryPromiseExa(thunk) is run and the thunk throws or its promise
\* rejects: Effect.tryPromise hands the value to catch
CallFails ==
  /\ svcPc = "ready"
  /\ \E o \in CallOutcomes :
       /\ o.kind # "resolve"
       /\ callOutcome' = o
       /\ callExit' = [tag |-> "Fail", error |-> toExaError(o.value)]
  /\ svcPc' = "callFailed"
  /\ UNCHANGED <<config, envApiKey, svcExit, newExaCalls, wrappedClient,
                 clientApiKey>>
  /\ UNCHANGED notServiceVars

ServiceNext == MakeService \/ CallResolves \/ CallFails

(***************************************************************************)
(* The terminal-state poller: websets.waitUntilIdle,                       *)
(* research.pollUntilFinished and websets.imports.waitUntilCompleted.      *)
(* The wrapper only hands the call on to the client; the loop is the one   *)
(* of the design, section 4.6:                                             *)
(*   fetch the current state; invoke the observer; on a terminal status    *)
(*   resolve (or, on a terminal failure, resolve or reject as the use      *)
(*   site decides); on a non-terminal status fail with a timeout error     *)
(*   when the elapsed time exceeds the timeout, else sleep the interval    *)
(*   and repeat.                                                           *)
(* Time is counted in ticks of 10 ms.  A fetch takes 0 to MaxFetchTime     *)
(* ticks, a sleep takes the interval.  A fetch past the end of plan        *)
(* returns "processing".                                                   *)
(***************************************************************************)
ResourceId == "r1"

\* the use sites: the statuses on which the session ends, and what a
\* terminal failure does; only pollUntilFinished has its policy fixed
UseSites ==
  { [name |-> "waitUntilIdle", success |-> {"idle"}, failure |-> {},
     onFailure |-> "resolve"],
    [name |-> "pollUntilFinished", success |-> {"completed"},
     failure |-> {"failed", "canceled"}, onFailure |-> "resolve"],
    [name |-> "waitUntilCompleted", success |-> {"completed"},
     failure |-> {"failed"}, onFailure |-> "resolve"],
    [name |-> "waitUntilCompleted", success |-> {"completed"},
     failure |-> {"failed"}, onFailure |-> "reject"] }

Statuses(u) == {"processing"} \cup u.success \cup u.failure

\* the status that fetch number n returns, and its record
StatusAt(n) == IF n <= Len(plan) THEN plan[n] ELSE "processing"
Record(n) == [id |-> ResourceId, status |-> StatusAt(n), fetch |-> n]

NoRecord == [id |-> "", status |-> "", fetch |-> 0]
NoPollError == [kind |-> "none", id |-> "", elapsed |-> 0]
TimeoutError(id, elapsed) == [kind |-> "timeout", id |-> id, elapsed |-> elapsed]

PollInit ==
  /\ site \in UseSites
  /\ timeout \in 0..MaxTimeout
  /\ interval \in 1..MaxInterval
  /\ plan \in SeqsUpTo(Statuses(site), MaxPlan)
  /\ pollPc = "top"
  /\ now = 0
  /\ fetchCalls = 0
  /\ observerCalls = 0
  /\ pollResult = NoRecord
  /\ pollError = NoPollError
  /\ interrupted = FALSE
  /\ fetchAfterInterrupt = FALSE

\* a loop that looks at the deadline before it fetches
PollFetchDeadlineFirst ==
  /\ pollPc = "top"
  /\ IF now >= timeout
       THEN /\ pollError' = TimeoutError(ResourceId, now)
            /\ pollPc' = "rejected"
            /\ UNCHANGED fetchCalls
       ELSE /\ fetchCalls' = fetchCalls + 1
            /\ pollPc' = "fetching"
            /\ UNCHANGED pollError
  /\ fetchAfterInterrupt' = (fetchAfterInterrupt \/ (interrupted /\ now < timeout))
  /\ UNCHANGED <<site, timeout, interval, plan, now, observerCalls,
                 pollResult, interrupted>>
  /\ UNCHANGED notPollVars

\* the top of the loop: the status fetch is issued
PollFetch ==
  /\ pollPc = "top"
  /\ fetchCalls' = fetchCalls + 1
  /\ pollPc' = "fetching"
  /\ fetchAfterInterrupt' = (fetchAfterInterrupt \/ interrupted)
  /\ UNCHANGED <<site, timeout, interval, plan, now, observerCalls,
                 pollResult, pollError, interrupted>>
  /\ UNCHANGED notPollVars

\* a loop that resolves with the record of its first fetch
PollFetchReturnsFirstRecord ==
  /\ pollPc = "fetching"
  /\ \E d \in 0..MaxFetchTime :
       /\ now' = now + d
       /\ observerCalls' = observerCalls + 1
       /\ LET status == StatusAt(fetchCalls)
          IN  IF status \in site.success
                   \/ (status \in site.failure /\ site.onFailure = "resolve")
                THEN /\ pollResult' = Record(1)
                     /\ pollPc' = "resolved"
                     /\ UNCHANGED pollError
              ELSE IF status \in site.failure
                THEN /\ pollError' = [kind |-> "failed", id |-> ResourceId,
                                      elapsed |-> now']
                     /\ pollPc' = "rejected"
                     /\ UNCHANGED pollResult
              ELSE IF now' > timeout
                THEN /\ pollError' = TimeoutError(ResourceId, now')
                     /\ pollPc' = "rejected"
                     /\ UNCHANGED pollResult
              ELSE /\ pollPc' = "sleeping"
                   /\ UNCHANGED <<pollResult, pollError>>
  /\ UNCHANGED <<site, timeout, interval, plan, fetchCalls, interrupted,
                 fetchAfterInterrupt>>
  /\ UNCHANGED notPollVars

\* a loop whose timeout never fires
PollFetchReturnsNoTimeout ==
  /\ pollPc = "fetching"
  /\ \E d \in 0..MaxFetchTime :
       /\ now' = now + d
       /\ observerCalls' = observerCalls + 1
       /\ LET status == StatusAt(fetchCalls)
          IN  IF status \in site.success
                   \/ (status \in site.failure /\ site.onFailure = "resolve")
                THEN /\ pollResult' = Record(fetchCalls)
                     /\ pollPc' = "resolved"
                     /\ UNCHANGED pollError
              ELSE IF status \in site.failure
                THEN /\ pollError' = [kind |-> "failed", id |-> ResourceId,
                                      elapsed |-> now']
                     /\ pollPc' = "rejected"
                     /\ UNCHANGED pollResult
              ELSE /\ pollPc' = "sleeping"
                   /\ UNCHANGED <<pollResult, pollError>>
  /\ UNCHANGED <<site, timeout, interval, plan, fetchCalls, interrupted,
                 fetchAfterInterrupt>>
  /\ UNCHANGED notPollVars

\* the fetch returns the current state after d ticks: observer, terminal
\* status, timeout, in this order
PollFetchReturns ==
  /\ pollPc = "fetching"
  /\ \E d \in 0..MaxFetchTime :
       /\ now' = now + d
       /\ observerCalls' = observerCalls + 1
       /\ LET status == StatusAt(fetchCalls)
          IN  IF status \in site.success
                   \/ (status \in site.failure /\ site.onFailure = "resolve")
                THEN /\ pollResult' = Record(fetchCalls)
                     /\ pollPc' = "resolved"
                     /\ UNCHANGED pollError
              ELSE IF status \in site.failure
                THEN /\ pollError' = [kind |-> "failed", id |-> ResourceId,
                                      elapsed |-> now']
                     /\ pollPc' = "rejected"
                     /\ UNCHANGED pollResult
              ELSE IF now' > timeout
                THEN /\ pollError' = TimeoutError(ResourceId, now')
                     /\ pollPc' = "rejected"
                     /\ UNCHANGED pollResult
              ELSE /\ pollPc' = "sleeping"
                   /\ UNCHANGED <<pollResult, pollError>>
  /\ UNCHANGED <<site, timeout, interval, plan, fetchCalls, interrupted,
                 fetchAfterInterrupt>>
  /\ UNCHANGED notPollVars

\* the fetch fails: its error is the session's
PollFetchFails ==
  /\ pollPc = "fetching"
  /\ \E d \in 0..MaxFetchTime :
       /\ now' = now + d
       /\ pollError' = [kind |-> "fetch", id |-> ResourceId, elapsed |-> now']
  /\ pollPc' = "rejected"
  /\ UNCHANGED <<site, timeout, interval, plan, fetchCalls, observerCalls,
                 pollResult, interrupted, fetchAfterInterrupt>>
  /\ UNCHANGED notPollVars

\* the sleep is over
PollWake ==
  /\ pollPc = "sleeping"
  /\ now' = now + interval
  /\ pollPc' = "top"
  /\ UNCHANGED <<site, timeout, interval, plan, fetchCalls, observerCalls,
                 pollResult, pollError, interrupted, fetchAfterInterrupt>>
  /\ UNCHANGED notPollVars

\* The Effect built by tryPromiseExa is interrupted while the client's
\* promise is pending.  The thunk takes no argument: the AbortSignal of
\* Effect.tryPromise is not handed to the client, and options carries what
\* the caller gave only.  The fiber ends; the loop behind the promise is
\* not told and goes on.  (The promise is pending while a fetch is in
\* flight and during a sleep; the code between them runs in one piece.)
PollInterrupt ==
  /\ pollPc \in {"fetching", "sleeping"}
  /\ ~interrupted
  /\ interrupted' = TRUE
  /\ UNCHANGED <<site, timeout, interval, plan, pollPc, now, fetchCalls,
                 observerCalls, pollResult, pollError, fetchAfterInterrupt>>
  /\ UNCHANGED notPollVars

PollNext ==
  \/ PollFetch
  \/ PollFetchReturns
  \/ PollFetchFails
  \/ PollWake
  \/ PollInterrupt

\* the variables of the component a specification does not run
AdapterIdle ==
  /\ values = <<>>
  /\ srcEnd = "done"
  /\ thrown = NoValue
  /\ consumer = [mode |-> "collect", n |-> 0]
  /\ index = 0
  /\ phase = "idle"
  /\ finalizers = {}
  /\ makeCalls = 0
  /\ nextCalls = 0
  /\ returnCalls = 0
  /\ emitted = <<>>
  /\ ending = NoEnding
  /\ releaseDefects = 0
  /\ pulledAfterReturn = FALSE
  /\ exit = NoExit
  /\ run = 0
  /\ created = 0
  /\ runSources = <<>>

SSEIdle ==
  /\ transcript = <<>>
  /\ pos = 0
  /\ decoderPending = <<>>
  /\ buffer = <<>>
  /\ pc = "idle"
  /\ promise = Pending
  /\ locked = FALSE
  /\ readAfterSettle = FALSE
  /\ releaseLockCalls = 0
  /\ resolveCalls = 0
  /\ rejectCalls = 0
  /\ lineAfterSettle = FALSE
  /\ terminalSeen = NoTerminal
  /\ lockThrows = FALSE
  /\ lastRead = "none"

AnswerIdle ==
  /\ ansTranscript = <<>>
  /\ ansPos = 0
  /\ ansDecoderPending = <<>>
  /\ ansBuffer = <<>>
  /\ ansLines = <<>>
  /\ ansPc = "idle"
  /\ ansYielded = <<>>
  /\ ansLocked = FALSE
  /\ ansReleaseCalls = 0
  /\ ansReadAfterRelease = FALSE
  /\ ansEnding = "none"
  /\ ansLastRead = "none"

DecoderIdle ==
  /\ decChunkData = NullPayload
  /\ decPc = "idle"
  /\ decChunk = AnswerStreamChunk(Undefined, NoChunkCitations)
  /\ decYields = FALSE

ServiceIdle ==
  /\ config = [client |-> "none", apiKey |-> Undefined]
  /\ envApiKey = Undefined
  /\ svcPc = "idle"
  /\ svcExit = NoEffectExit
  /\ newExaCalls = 0
  /\ wrappedClient = "none"
  /\ clientApiKey = Undefined
  /\ callOutcome = [kind |-> "resolve", value |-> NoValue]
  /\ callExit = NoEffectExit

PollIdle ==
  /\ site = [name |-> "none", success |-> {}, failure |-> {},
             onFailure |-> "resolve"]
  /\ timeout = 0
  /\ interval = 1
  /\ plan = <<>>
  /\ pollPc = "idle"
  /\ now = 0
  /\ fetchCalls = 0
  /\ observerCalls = 0
  /\ pollResult = NoRecord
  /\ pollError = NoPollError
  /\ interrupted = FALSE
  /\ fetchAfterInterrupt = FALSE

InitAdapter ==
  AdapterInit /\ SSEIdle /\ AnswerIdle /\ DecoderIdle /\ ServiceIdle /\ PollIdle
NextAdapter == AdapterNext
SpecAdapter == InitAdapter /\ [][NextAdapter]_vars

InitSSE ==
  SSEInit /\ AdapterIdle /\ AnswerIdle /\ DecoderIdle /\ ServiceIdle /\ PollIdle
NextSSE == SSENext
SpecSSE == InitSSE /\ [][NextSSE]_vars

InitAnswer ==
  AnswerInit /\ AdapterIdle /\ SSEIdle /\ DecoderIdle /\ ServiceIdle /\ PollIdle
NextAnswer == AnswerNext
SpecAnswer == InitAnswer /\ [][NextAnswer]_vars

\* a call of either consumer on its own byte stream
InitConsumers ==
  /\ AdapterIdle
  /\ DecoderIdle
  /\ ServiceIdle
  /\ PollIdle
  /\ \/ SSEInit /\ AnswerIdle
     \/ AnswerInit /\ SSEIdle
NextConsumers == SSENext \/ AnswerNext
SpecConsumers == InitConsumers /\ [][NextConsumers]_vars

\* A blocking call and an incremental call on one client, in flight at
\* the same time, each on its own response body.  reader, decoder and
\* buffer are local to a call of parseSSEStream or of streamAnswer; the
\* steps of the two calls interleave at their awaits.
TwoCallBodies ==
  { Join(<<Line(<<"P", "g">>), Line(<<"C", "1">>)>>),
    Join(<<<<":", LeadByte, ContByte>>, Line(<<"E", "b">>)>>),
    Join(<<Line(<<"{", "x">>)>>) \o Line(<<"C", "2">>),
    Join(<<Line(<<"C", "2">>), Line(<<"C", "1">>)>>) }

TwoCallAnswerBodies ==
  { Join(<<Line(<<"H", "i">>), Line(<<"R", "f">>)>>),
    Join(<<<<":", LeadByte, ContByte>>, Line(<<"H", "n">>)>>),
    Join(<<Line(<<"H", "i">>)>>) \o Line(<<"R", "f">>),
    Join(<<Line(<<"n", "u">>), Line(<<"H", "i">>)>>) }

InitTwoCalls ==
  /\ SSEInit
  /\ transcript \in TwoCallBodies
  /\ AnswerInit
  /\ ansTranscript \in TwoCallAnswerBodies
  /\ AdapterIdle /\ DecoderIdle /\ ServiceIdle /\ PollIdle
NextTwoCalls == SSENext \/ AnswerNext
SpecTwoCalls == InitTwoCalls /\ [][NextTwoCalls]_vars

InitService ==
  /\ ServiceInit
  /\ AdapterIdle /\ SSEIdle /\ AnswerIdle /\ DecoderIdle /\ PollIdle
NextService == ServiceNext
SpecService == InitService /\ [][NextService]_vars

InitPoll ==
  /\ PollInit
  /\ AdapterIdle /\ SSEIdle /\ AnswerIdle /\ DecoderIdle /\ ServiceIdle
NextPoll == PollNext
SpecPoll == InitPoll /\ [][NextPoll]_vars

InitDecoder ==
  /\ DecoderInit
  /\ AdapterIdle /\ SSEIdle /\ AnswerIdle /\ ServiceIdle /\ PollIdle
NextDecoder == DecoderNext
SpecDecoder == InitDecoder /\ [][NextDecoder]_vars

(***************************************************************************)
(* Properties of the generator-to-stream adapter (SpecAdapter).            *)
(***************************************************************************)

\* C1: whenever a run of an adapted stream has delivered its exit, by
\* exhaustion, early termination, downstream failure, an error thrown by
\* next() or interruption, the source created for the run has had return()
\* invoked at least once.
C1_ReleasedBeforeExit ==
  (phase = "done" /\ makeCalls > 0) => returnCalls >= 1

\* a run torn down right after the source was created, before the inner
\* stream started, has released the source
C1_Witness ==
  /\ phase = "done"
  /\ exit.tag = "Interrupt"
  /\ nextCalls = 0
  /\ makeCalls = 1
  /\ returnCalls >= 1

\* C2: on every exit path the source's return() is invoked exactly once,
\* counting the calls of both finalizers.
C2_ReleasedExactlyOnce ==
  phase = "done" => returnCalls = 1

\* C3: a consumer that takes 1 item from a source of N > 1 items causes
\* exactly one next(): no pull after the first item was delivered and no
\* pull after return().
C3_TakeOnePullsOnce ==
  (consumer = [mode |-> "take", n |-> 1] /\ Len(values) > 1) =>
    /\ nextCalls <= 1
    /\ Len(emitted) = 1 => nextCalls = 1
    /\ ~pulledAfterReturn
    /\ phase = "done" /\ exit.tag # "Interrupt" => nextCalls = 1

C3_Witness ==
  /\ consumer = [mode |-> "take", n |-> 1]
  /\ Len(values) = 3
  /\ phase = "done"
  /\ exit.tag = "Success"
  /\ exit.items = <<values[1]>>
  /\ nextCalls = 1
  /\ returnCalls >= 1

\* C4: a stream consumed to the end, whose source yields v1..vn and then
\* completes with no error, emits exactly v1..vn in order and then
\* completes successfully.
C4_EmitsAllInOrder ==
  (/\ phase = "done"
   /\ consumer.mode = "collect"
   /\ srcEnd = "done"
   /\ exit.tag # "Interrupt"
   /\ releaseDefects = 0) =>
    /\ emitted = values
    /\ exit.tag = "Success"
    /\ exit.items = values
    /\ nextCalls = Len(values) + 1

C4_Witness ==
  /\ phase = "done"
  /\ consumer.mode = "collect"
  /\ srcEnd = "done"
  /\ values = <<"a", "b", "a">>
  /\ exit.tag = "Success"
  /\ exit.items = <<"a", "b", "a">>

\* C5: when next() fails after k values, the stream has emitted the k
\* values in order and fails with toExaError of the thrown value, a typed
\* ExaError; no next() follows the failing one, and return() has been
\* invoked before the failure reaches the caller.
C5_SourceErrorMapped ==
  /\ srcEnd = "throw" => nextCalls <= Len(values) + 1
  /\ (/\ phase = "done"
      /\ srcEnd = "throw"
      /\ nextCalls = Len(values) + 1
      /\ exit.tag # "Interrupt") =>
       /\ exit.tag = "Fail"
       /\ exit.error = toExaError(thrown)
       /\ exit.error.kind = "ExaError"
       /\ emitted = values
       /\ returnCalls >= 1

\* a plain object carrying a status is thrown after two values
C5_Witness ==
  /\ phase = "done"
  /\ srcEnd = "throw"
  /\ thrown.kind = "object"
  /\ Len(values) = 2
  /\ emitted = values
  /\ exit.tag = "Fail"
  /\ exit.error.kind = "ExaError"
  /\ exit.error.statusCode = Num(429)
  /\ returnCalls >= 1

\* C6: a rejecting return() is suppressed: the run ends as it was ending,
\* successfully with the items collected or with the original error, and
\* the release failure is neither raised nor added to the outcome.
C6_ReleaseFailureSuppressed ==
  (phase = "done" /\ ending.kind \in {"Success", "Fail"}) =>
    /\ exit.defects = 0
    /\ exit.tag = ending.kind
    /\ exit.error = ending.error
    /\ ending.kind = "Success" => exit.items = emitted

\* C27: make() is called only when the stream is run, not when the stream
\* value is built, and exactly once per run, so a run never holds more
\* than one source; two runs of the same stream value use two separate
\* sources.
C27_OneSourcePerRun ==
  /\ makeCalls <= 1
  /\ phase = "built" => makeCalls = 0
  /\ phase \notin {"built", "idle"} => makeCalls = 1
  /\ Len(runSources) = (IF phase = "built" THEN run - 1 ELSE run)
  /\ created = Len(runSources)
  /\ \A i, j \in 1..Len(runSources) :
       i # j => runSources[i] # runSources[j]

\* the second run of a stream value has ended; it had a source of its own
C27_Witness ==
  /\ run = 2
  /\ phase = "done"
  /\ makeCalls = 1
  /\ runSources = <<1, 2>>
  /\ returnCalls >= 1
  /\ exit.tag = "Success"
  /\ exit.items = values
  /\ Len(values) = 2

(***************************************************************************)
(* Properties of the blocking SSE consumer (SpecSSE).                      *)
(***************************************************************************)

\* the newline-terminated lines among the bytes handed out so far
DeliveredLines ==
  LET ls == Split(decode(<<>>, SubSeq(transcript, 1, pos)).text)
  IN  SubSeq(ls, 1, Len(ls) - 1)

\* a data line whose JSON has tag "complete" or "error"
IsTerminalLine(line) ==
  /\ StartsWith(line, DataPrefix)
  /\ JSONParse(StripData(line)).ok
  /\ ~JSONParse(StripData(line)).val.isNull
  /\ JSONParse(StripData(line)).val.tag \in {"complete", "error"}

TerminalLines ==
  { i \in 1..Len(DeliveredLines) : IsTerminalLine(DeliveredLines[i]) }

FirstTerminal ==
  JSONParse(StripData(DeliveredLines[
    CHOOSE i \in TerminalLines : \A j \in TerminalLines : i <= j])).val

\* what a terminal event settles the call with
ExpectedOutcome(event) ==
  IF event.tag = "complete" THEN Fulfilled(event.data)
  ELSE Rejected("ExaError",
                IF event.hasError /\ event.hasMessage /\ event.message # ""
                  THEN event.message ELSE "Unknown error",
                500)

\* C7: the first newline-terminated data line in the byte stream whose tag
\* is "complete" or "error" decides the outcome: complete resolves with the
\* line's data, error rejects with an ExaError of status 500 carrying
\* error.message, or "Unknown error" when that is missing or empty.
\* (Stated for the readers whose releaseLock() succeeds; the others are
\* the subject of C10.)
C7_FirstTerminalDecides ==
  (pc = "exited" /\ ~lockThrows /\ TerminalLines # {}) =>
    promise = ExpectedOutcome(FirstTerminal)

\* C8: a byte stream that ends while the consumer is still reading makes
\* the call fail with "Stream ended without a completion event." and
\* status 500; the call neither resolves nor stays pending.
C8_EndWithoutTerminalFails ==
  lastRead = "done" =>
    /\ pc = "exited"
    /\ resolveCalls = 0
    /\ promise = Rejected("ExaError",
                          "Stream ended without a completion event.", 500)

\* two progress events, then the end of the stream
C8_Witness ==
  /\ transcript = Join(<<Line(<<"P", "g">>), Line(<<"P", "g">>)>>)
  /\ lastRead = "done"
  /\ pc = "exited"
  /\ promise.state = "rejected"
  /\ promise.message = "Stream ended without a completion event."

\* C9: the call settles exactly once: resolve and reject are called once
\* in total by the time the consumer has returned, never more; once the
\* promise is settled the consumer has returned, and it reads nothing and
\* looks at no line afterwards.
C9_SettlesOnce ==
  /\ resolveCalls + rejectCalls <= 1
  /\ pc = "exited" => (resolveCalls + rejectCalls = 1 /\ promise.state # "pending")
  /\ promise.state # "pending" => pc = "exited"
  /\ ~readAfterSettle
  /\ ~lineAfterSettle

\* a complete event and an error event arrive in one chunk
C9_Witness ==
  /\ transcript = Join(<<Line(<<"C", "1">>), Line(<<"E", "b">>)>>)
  /\ pos = Len(transcript)
  /\ lastRead = "chunk"
  /\ buffer = <<>>
  /\ pc = "exited"
  /\ promise = Fulfilled(1)
  /\ resolveCalls = 1
  /\ rejectCalls = 0

\* C10: by the time the call has settled releaseLock() has been called, on
\* every exit path, and a failure of releaseLock() does not change the
\* outcome the terminal event decided.
C10_LockReleasedOutcomeKept ==
  pc = "exited" =>
    /\ releaseLockCalls >= 1
    /\ terminalSeen.seen => promise = ExpectedOutcome(terminalSeen.val)

\* C23: a final data line with no line break after it is still processed
\* when the byte stream ends: a body ending in an unterminated complete
\* event resolves with its data, one ending in an unterminated error event
\* rejects with that event's message, and neither fails with "Stream ended
\* without a completion event."
C23_UnterminatedLastLineProcessed ==
  (lastRead = "done" /\ IsTerminalLine(buffer)) =>
    promise = ExpectedOutcome(JSONParse(StripData(buffer)).val)

(***************************************************************************)
(* Properties of the two SSE consumers (SpecConsumers, SpecAnswer).        *)
(***************************************************************************)

IsPrefix(a, b) == Len(a) <= Len(b) /\ SubSeq(b, 1, Len(a)) = a

\* the body with the lines satisfying Drop taken out; the last piece is
\* the line that no line break follows
Without(bytes, Drop(_)) ==
  LET ls == Split(bytes)
      last == ls[Len(ls)]
  IN  Join(SelectSeq(SubSeq(ls, 1, Len(ls) - 1), LAMBDA l : ~Drop(l)))
        \o (IF Drop(last) THEN <<>> ELSE last)

\* a data line whose payload is not valid JSON
IsMalformedLine(line) ==
  /\ StartsWith(line, DataPrefix)
  /\ StripData(line) # <<>>
  /\ StripData(line) # DoneMarker
  /\ ~JSONParse(StripData(line)).ok

\* a data: [DONE] line
IsDoneLine(line) ==
  StartsWith(line, DataPrefix) /\ StripData(line) = DoneMarker

\* the blocking consumer's outcome when the whole body is one chunk
BlockingAllAtOnce(bytes, throws) ==
  LET ls == Split(decode(<<>>, bytes).text)
      start == [promise |-> Pending, locked |-> TRUE, releaseLockCalls |-> 0,
                resolveCalls |-> 0, rejectCalls |-> 0,
                lineAfterSettle |-> FALSE, terminalSeen |-> NoTerminal,
                ctl |-> "loop", err |-> Pending]
      st == CatchFinally(
              ProcessLines(start, SubSeq(ls, 1, Len(ls) - 1), throws), throws)
  IN  IF st.ctl = "loop"
        THEN Rejected("ExaError", "Stream ended without a completion event.",
                      500)
        ELSE st.promise

\* the incremental consumer's items and ending when the whole body is one
\* chunk and the consumer takes every item
RECURSIVE Drain(_, _)
Drain(lines, out) ==
  LET r == RunLoop(lines)
  IN  IF r.act = "yield" THEN Drain(r.rest, Append(out, r.chunk))
      ELSE [yielded |-> out, threw |-> r.act = "throw"]

AnswerAllAtOnce(bytes) ==
  LET ls == Split(decode(<<>>, bytes).text)
      d == Drain(SubSeq(ls, 1, Len(ls) - 1), <<>>)
      f == Flush(ls[Len(ls)])
  IN  IF d.threw THEN [yielded |-> d.yielded, ending |-> "TypeError"]
      ELSE [yielded |-> IF f.act = "yield" THEN Append(d.yielded, f.chunk)
                        ELSE d.yielded,
            ending |-> "complete"]

\* the blocking call has ended, and not by an error of read()
BlockingEnded == pc = "exited" /\ lastRead # "error"

\* the generator has finished by itself: the consumer took every item and
\* read() raised no error
AnswerEnded == ansEnding \in {"complete", "TypeError"}

AnswerResult == [yielded |-> ansYielded, ending |-> ansEnding]

\* C11: a data line whose payload is not valid JSON is dropped with no
\* other effect: each consumer ends as it ends on the body without the
\* malformed lines (the blocking call with the same outcome, the
\* incremental one with the same items and the same ending), and at every
\* moment the items emitted are a prefix of the items of that body.
C11_MalformedLineDropped ==
  /\ BlockingEnded =>
       promise = BlockingAllAtOnce(Without(transcript, IsMalformedLine),
                                   lockThrows)
  /\ IsPrefix(ansYielded,
              AnswerAllAtOnce(Without(ansTranscript, IsMalformedLine)).yielded)
  /\ AnswerEnded =>
       AnswerResult = AnswerAllAtOnce(Without(ansTranscript, IsMalformedLine))

\* a malformed line, then a content line: the content is emitted and the
\* stream completes
C11_Witness ==
  /\ ansTranscript = Join(<<Line(<<"{", "x">>), Line(<<"H", "i">>)>>)
  /\ ansPc = "done"
  /\ ansEnding = "complete"
  /\ Len(ansYielded) = 1
  /\ ansYielded[1].content = Str(<<"H", "i">>)

\* C12: however the body is cut into chunks, the blocking call settles
\* with the outcome it has when the body arrives all at once, and the
\* incremental consumer emits the items, and ends the way, it does when
\* the body arrives all at once.
C12_ChunkBoundaryInvariant ==
  /\ BlockingEnded => promise = BlockingAllAtOnce(transcript, lockThrows)
  /\ IsPrefix(ansYielded, AnswerAllAtOnce(ansTranscript).yielded)
  /\ AnswerEnded => AnswerResult = AnswerAllAtOnce(ansTranscript)

\* a chunk ended inside the "data: " prefix of the second line, after the
\* first line gave its item: the fragment waits in the buffer
C12_Witness ==
  /\ ansTranscript = Join(<<Line(<<"H", "i">>), Line(<<"R", "f">>)>>)
  /\ ansPc = "read"
  /\ ansBuffer = <<"d", "a", "t">>
  /\ Len(ansYielded) = 1

\* C13: a data: [DONE] line produces no item and ends nothing: the items
\* emitted are those of the body without its [DONE] lines, those after a
\* [DONE] line included, and the generator completes only after read()
\* has reported the end of the byte stream.
C13_DoneMarkerIgnored ==
  /\ IsPrefix(ansYielded,
              AnswerAllAtOnce(Without(ansTranscript, IsDoneLine)).yielded)
  /\ AnswerEnded =>
       AnswerResult = AnswerAllAtOnce(Without(ansTranscript, IsDoneLine))
  /\ ansEnding = "complete" =>
       ansLastRead = "done" /\ ansPos = Len(ansTranscript)

\* a [DONE] line, then a content line
C13_Witness ==
  /\ ansTranscript = Join(<<Line(DoneMarker), Line(<<"H", "i">>)>>)
  /\ ansPc = "done"
  /\ ansEnding = "complete"
  /\ Len(ansYielded) = 1
  /\ ansYielded[1].content = Str(<<"H", "i">>)

\* C14: every emitted Answer Chunk has a non-empty content string or a
\* non-empty citations list.
C14_NoEmptyChunkEmitted ==
  \A i \in 1..Len(ansYielded) :
    \/ ansYielded[i].content.k = "string" /\ ansYielded[i].content.s # <<>>
    \/ ansYielded[i].citations.defined /\ ansYielded[i].citations.items # <<>>

\* the data lines that give an item, and their items: a claim-side
\* reading that does not go through the loop
GivesItem(line) ==
  /\ StartsWith(line, DataPrefix)
  /\ JSONParse(StripData(line)).ok
  /\ ~processChunk(JSONParse(StripData(line)).val).threw
  /\ ChunkTruthy(processChunk(JSONParse(StripData(line)).val).chunk)

ItemsOf(bytes) ==
  LET kept == SelectSeq(Split(decode(<<>>, bytes).text), GivesItem)
  IN  [i \in 1..Len(kept) |->
         processChunk(JSONParse(StripData(kept[i])).val).chunk]

\* C15: the end of the byte stream is a normal completion, never a
\* failure; the items emitted are, in arrival order, those of the retained
\* data lines, one each: always a prefix of them, and all of them once the
\* generator has completed.
C15_EndIsCompletionInOrder ==
  /\ ansLastRead = "done" =>
       ansPc \in {"flushYield", "done"} /\ ansEnding \in {"none", "complete", "returned"}
  /\ IsPrefix(ansYielded, ItemsOf(ansTranscript))
  /\ ansEnding = "complete" => ansYielded = ItemsOf(ansTranscript)

\* a body of two data lines, the last with no line break after it, has
\* given its two items in order and completed
C15_Witness ==
  /\ ansTranscript = Join(<<Line(<<"R", "f">>)>>) \o Line(<<"H", "n">>)
  /\ ansLastRead = "done"
  /\ ansEnding = "complete"
  /\ Len(ansYielded) = 2
  /\ ansYielded[1].citations.defined
  /\ ansYielded[2].content = Str(<<"Y", "o">>)

\* a body with no data line at all has completed with no item
C15_WitnessNoData ==
  /\ ansTranscript = <<":", LeadByte, ContByte, NL>>
  /\ ansLastRead = "done"
  /\ ansEnding = "complete"
  /\ ansYielded = <<>>

\* the decoded text after the last line break of a body, and the lines
\* before it
PendingText(bytes) ==
  LET ls == Split(decode(<<>>, bytes).text) IN ls[Len(ls)]

ChunkOf(line) == processChunk(JSONParse(StripData(line)).val).chunk

\* C22: after each chunk the pending buffer is exactly the decoded text
\* after the last line break seen so far (so a fragment is carried over and
\* put in front of the next chunk's text); and a data line that ends the
\* body with no line break after it is processed once, after read() has
\* reported the end: when its chunk has content or citations it is the
\* last item emitted, and every retained line has given one item.
C22_PartialLineKept ==
  /\ ansBuffer = PendingText(SubSeq(ansTranscript, 1, ansPos))
  /\ ansPc = "flushYield" =>
       /\ ansLastRead = "done"
       /\ GivesItem(ansBuffer)
       /\ ansYielded[Len(ansYielded)] = ChunkOf(ansBuffer)
  /\ (ansEnding = "complete" /\ GivesItem(PendingText(ansTranscript))) =>
       /\ ansYielded # <<>>
       /\ ansYielded[Len(ansYielded)] = ChunkOf(PendingText(ansTranscript))
       /\ Len(ansYielded) = Len(ItemsOf(ansTranscript))

\* the body is one content line with no line break: read() has reported
\* the end and the line's chunk has just been handed out
C22_Witness ==
  /\ ansTranscript = Line(<<"H", "i">>)
  /\ ansPc = "flushYield"
  /\ ansBuffer = Line(<<"H", "i">>)
  /\ ansYielded = <<AnswerStreamChunk(Str(<<"H", "i">>), NoChunkCitations)>>

\* a data line whose payload parses as JSON and is neither a complete nor
\* an error event
IsIgnoredEvent(line) ==
  /\ StartsWith(line, DataPrefix)
  /\ JSONParse(StripData(line)).ok
  /\ ~IsTerminalLine(line)

\* C26: in the blocking consumer a data line whose payload parses as JSON
\* and is not a complete or error event (tag "progress", another tag, no
\* tag, or a payload that is not an object, such as null) is ignored: the
\* consumer does not settle on it and goes on to the following lines, so
\* the call ends as it ends on the body without these lines.
C26_OtherEventsIgnored ==
  BlockingEnded =>
    promise = BlockingAllAtOnce(Without(transcript, IsIgnoredEvent), lockThrows)

\* C25: no parsed payload makes the decoder raise an exception, so no data
\* line makes the generator fail (JSON null and a citations field that is
\* not a list included); and a chunk with both fields undefined, as a
\* payload with none of the recognised fields gives, is never emitted.
C25_NoPayloadFailsTheStream ==
  /\ ansEnding # "TypeError"
  /\ \A i \in 1..Len(ansYielded) : ansYielded[i] # NoChunk

\* C29: the lock of the reader is released before the generator finishes,
\* on every exit path: the end of the byte stream, an exception of
\* reader.read(), an exception raised while a payload is decoded, and
\* return() called by the consumer while the generator is suspended at a
\* yield; and after the release the generator calls reader.read() no more.
C29_LockReleasedOnEveryExit ==
  /\ ansPc \in {"done", "failed"} =>
       /\ ~ansLocked
       /\ ansReleaseCalls = 1
       /\ ansEnding \in {"complete", "ReadError", "TypeError", "returned"}
  /\ ansEnding # "none" => ansPc \in {"done", "failed"}
  /\ ~ansLocked => ansPc \in {"done", "failed", "idle"}
  /\ ~ansReadAfterRelease

\* the consumer took one item and called return() with bytes still unread
C29_Witness ==
  /\ ansEnding = "returned"
  /\ ansPc = "done"
  /\ Len(ansYielded) = 1
  /\ ansPos < Len(ansTranscript)
  /\ ~ansLocked
  /\ ansReleaseCalls = 1

\* the decoder threw on the second line, after the first gave its item
C29_WitnessDecodeError ==
  /\ ansTranscript = Join(<<Line(<<"H", "i">>), Line(<<"n", "u">>)>>)
  /\ ansEnding = "TypeError"
  /\ ansPc = "failed"
  /\ Len(ansYielded) = 1
  /\ ~ansLocked

\* read() rejected after the first item
C29_WitnessReadError ==
  /\ ansEnding = "ReadError"
  /\ ansPc = "failed"
  /\ Len(ansYielded) = 1
  /\ ~ansLocked

\* the body ends in a data line with no line break after it
LastLineIsUnterminatedData(bytes) ==
  /\ bytes # <<>>
  /\ bytes[Len(bytes)] # NL
  /\ StartsWith(PendingText(bytes), DataPrefix)

\* C30: the last data line is treated the same with and without a line
\* break after it: a body ending in a data line with no line break gives
\* the items and the ending (completion or failure) that the same body
\* followed by a line break gives, whatever the payload of that line.
C30_LastLineSameWithNewline ==
  (AnswerEnded /\ LastLineIsUnterminatedData(ansTranscript)) =>
    AnswerResult = AnswerAllAtOnce(ansTranscript \o <<NL>>)

\* C28: a blocking call and an incremental call in flight at the same
\* time do not interfere: whatever the interleaving of their chunk
\* arrivals, the pending buffer and the decoder of each call depend on the
\* bytes of its own body only, and each call settles with, or emits, what
\* it produces on its own body when it runs alone.
C28_CallsDoNotInterfere ==
  /\ buffer = PendingText(SubSeq(transcript, 1, pos))
  /\ decoderPending = decode(<<>>, SubSeq(transcript, 1, pos)).pending
  /\ ansBuffer = PendingText(SubSeq(ansTranscript, 1, ansPos))
  /\ ansDecoderPending = decode(<<>>, SubSeq(ansTranscript, 1, ansPos)).pending
  /\ BlockingEnded => promise = BlockingAllAtOnce(transcript, lockThrows)
  /\ IsPrefix(ansYielded, AnswerAllAtOnce(ansTranscript).yielded)
  /\ AnswerEnded => AnswerResult = AnswerAllAtOnce(ansTranscript)

\* both calls are awaiting a read, each with a different fragment pending:
\* the blocking call inside its second line, the incremental call inside
\* its first
C28_Witness ==
  /\ transcript = Join(<<Line(<<"P", "g">>), Line(<<"C", "1">>)>>)
  /\ ansTranscript = Join(<<Line(<<"H", "i">>), Line(<<"R", "f">>)>>)
  /\ pc = "read"
  /\ ansPc = "read"
  /\ buffer = <<"d", "a">>
  /\ ansBuffer = <<"d", "a", "t", "a", ":", " ", "H">>
  /\ lastRead = "chunk"
  /\ ansLastRead = "chunk"

\* both calls have ended, each with the result of its own body
C28_WitnessEnded ==
  /\ transcript = Join(<<Line(<<"P", "g">>), Line(<<"C", "1">>)>>)
  /\ ansTranscript = Join(<<Line(<<"H", "i">>), Line(<<"R", "f">>)>>)
  /\ promise = Fulfilled(1)
  /\ ansEnding = "complete"
  /\ Len(ansYielded) = 2

(***************************************************************************)
(* Properties of the chunk decoder (SpecDecoder).                          *)
(***************************************************************************)

NullString == CitationsString(<<"n", "u", "l", "l">>)

\* C24: a citations field equal to the string "null" is treated as absent:
\* the decoder returns a chunk whose citations are undefined; with no
\* content delta nothing is emitted, with a non-empty content delta the
\* chunk emitted carries the content only.  The content of a chunk is
\* that of choices[0].delta, whatever else the payload holds.
C24_NullStringIsAbsent ==
  /\ (decPc # "parsed" /\ decChunkData.citations = NullString) =>
       /\ decPc = "decoded"
       /\ ~decChunk.citations.defined
       /\ (~decChunkData.hasDelta \/ decChunkData.content = Undefined) =>
            ~decYields
       /\ (/\ decChunkData.hasDelta
           /\ decChunkData.content.k = "string"
           /\ decChunkData.content.s # <<>>) =>
            /\ decYields
            /\ decChunk =
                 AnswerStreamChunk(decChunkData.content, NoChunkCitations)
  /\ decPc = "decoded" =>
       decChunk.content =
         IF decChunkData.hasDelta THEN decChunkData.content ELSE Undefined

\* a content delta with citations "null" and a content field elsewhere
C24_Witness ==
  /\ decPc = "decoded"
  /\ decChunkData.hasDelta
  /\ decChunkData.content = Str(<<"Y", "o">>)
  /\ decChunkData.citations = NullString
  /\ decChunkData.otherContent = Str(<<"Z", "z">>)
  /\ decYields
  /\ decChunk = AnswerStreamChunk(Str(<<"Y", "o">>), NoChunkCitations)

\* citations "null" and a content field outside the delta only: nothing
\* is emitted
C24_WitnessNoDelta ==
  /\ decPc = "decoded"
  /\ ~decChunkData.hasDelta
  /\ decChunkData.citations = NullString
  /\ decChunkData.otherContent = Str(<<"Z", "z">>)
  /\ ~decYields

(***************************************************************************)
(* Properties of error normalisation and of the factory (SpecService).     *)
(***************************************************************************)

\* a status field that can be used: a number, or a string that parseInt
\* reads a number from
Usable(v) == v.k = "number" \/ (v.k = "string" /\ ~ParseInt(v.s).nan)
NumberOf(v) == IF v.k = "number" THEN v.n ELSE ParseInt(v.s).n

\* the four places of a status, in the order of the claim
StatusPlaces(e) ==
  <<e.status, e.statusCode>> \o
    (IF e.response.present THEN <<e.response.status, e.response.statusCode>>
     ELSE <<>>)

FirstUsableStatus(e) ==
  LET places == StatusPlaces(e)
      usable == { i \in 1..Len(places) : Usable(places[i]) }
  IN  IF e.kind # "object" \/ usable = {} THEN 500
      ELSE NumberOf(places[CHOOSE i \in usable : \A j \in usable : i <= j])

ExpectedExaError(e) ==
  IF e.kind = "ExaError" THEN e
  ELSE NewExaError(IF e.kind = "object" /\ e.message.k = "string"
                     THEN e.message.s ELSE Stringify(e),
                   FirstUsableStatus(e))

\* C16: a call through tryPromiseExa whose thunk throws or rejects with e
\* fails with toExaError(e): e itself when e is an ExaError; otherwise an
\* ExaError whose status is the first usable one of e.status,
\* e.statusCode, e.response.status, e.response.statusCode, else 500, and
\* whose message is e.message when that is a string, else String(e).
C16_FailureIsNormalised ==
  svcPc = "callFailed" =>
    /\ callExit.tag = "Fail"
    /\ callExit.error = ExpectedExaError(callOutcome.value)
    /\ callExit.error.kind = "ExaError"

\* a rejection with a non-numeric top-level status, a top-level statusCode
\* and a nested response status: the top-level statusCode wins
C16_Witness ==
  /\ svcPc = "callFailed"
  /\ callOutcome.kind = "reject"
  /\ callOutcome.value =
       Obj(Str(<<"a">>), Str(<<"4", "0", "1">>),
           Response(Num(503), Undefined), Num(7))
  /\ callExit.error.statusCode = Num(401)
  /\ callExit.error.message =
       Str(<<"[", "o", "b", "j", "e", "c", "t", " ", "O", "b", "j", "e", "c",
             "t", "]">>)

\* s has sub as a contiguous part
Contains(s, sub) ==
  \E i \in 1..(Len(s) - Len(sub) + 1) : SubSeq(s, i, i + Len(sub) - 1) = sub

\* C17: with no client, no apiKey and no EXA_API_KEY the Effect of
\* makeExaService, once run, has failed (a failure, not a defect) with an
\* ExaError of status 401 whose message mentions the API key, and before
\* it is run nothing has happened; with a client in the config the Effect
\* succeeds wrapping that client and the Exa constructor is never called.
C17_FactoryFailsTyped ==
  /\ svcPc = "built" => newExaCalls = 0 /\ svcExit = NoEffectExit
  /\ (/\ svcPc # "built"
      /\ config.client = "none"
      /\ config.apiKey = Undefined
      /\ envApiKey = Undefined) =>
       /\ svcExit.tag = "Fail"
       /\ svcExit.error.kind = "ExaError"
       /\ svcExit.error.statusCode = Num(401)
       /\ Contains(svcExit.error.message.s, <<"A", "P", "I", " ", "k", "e", "y">>)
  /\ config.client = "given" =>
       /\ newExaCalls = 0
       /\ svcPc # "built" => (svcExit.tag = "Success" /\ wrappedClient = "given")

\* the factory was run with an empty config and no key in the environment
C17_Witness ==
  /\ svcPc = "failed"
  /\ config = [client |-> "none", apiKey |-> Undefined]
  /\ envApiKey = Undefined
  /\ newExaCalls = 1
  /\ svcExit.tag = "Fail"
  /\ svcExit.error.statusCode = Num(401)

\* a given client is wrapped although no key is to be found anywhere
C17_WitnessClient ==
  /\ svcPc = "ready"
  /\ config = [client |-> "given", apiKey |-> Undefined]
  /\ envApiKey = Undefined
  /\ newExaCalls = 0
  /\ wrappedClient = "given"

(***************************************************************************)
(* Properties of the terminal-state poller (SpecPoll).                     *)
(***************************************************************************)

\* a status on which the session's use site resolves
Resolving(status) ==
  \/ status \in site.success
  \/ status \in site.failure /\ site.onFailure = "resolve"

PollEnded == pollPc \in {"resolved", "rejected"}

\* C18: a session fails with a timeout error only after at least one
\* status fetch (and one call of the observer), whatever the timeout, zero
\* included; and when the first fetch returns a terminal status the
\* session resolves with that record after this one fetch, whatever the
\* timeout and however long the fetch took.
C18_FetchBeforeTimeout ==
  /\ pollError.kind = "timeout" => fetchCalls >= 1 /\ observerCalls >= 1
  /\ (PollEnded /\ pollError.kind # "fetch" /\ Resolving(StatusAt(1))) =>
       /\ pollPc = "resolved"
       /\ pollResult = Record(1)
       /\ fetchCalls = 1

\* timeout zero, a first fetch that took a tick and returned idle
C18_Witness ==
  /\ site.name = "waitUntilIdle"
  /\ timeout = 0
  /\ now = 1
  /\ StatusAt(1) = "idle"
  /\ pollPc = "resolved"
  /\ fetchCalls = 1
  /\ pollResult.status = "idle"

\* the fetches of plan that return a terminal status
TerminalAt == { n \in 1..Len(plan) : plan[n] # "processing" }
FirstTerminalAt == CHOOSE n \in TerminalAt : \A m \in TerminalAt : n <= m

\* C19: when the fetches return k non-terminal statuses and then a
\* terminal one, no fetch follows fetch k+1; a session that resolved did
\* so with the record of fetch k+1 after exactly k+1 fetches and k+1
\* observer calls; and a session times out only at a non-terminal status
\* with the timeout exceeded, so it resolves when the deadline is not
\* reached first.
C19_ResolvesAtFirstTerminal ==
  /\ TerminalAt # {} => fetchCalls <= FirstTerminalAt
  /\ pollPc = "resolved" =>
       /\ TerminalAt # {}
       /\ fetchCalls = FirstTerminalAt
       /\ observerCalls = FirstTerminalAt
       /\ pollResult = Record(FirstTerminalAt)
       /\ Resolving(pollResult.status)
  /\ pollError.kind = "timeout" =>
       /\ now > timeout
       /\ StatusAt(fetchCalls) = "processing"
  /\ (/\ PollEnded
      /\ TerminalAt # {}
      /\ Resolving(plan[FirstTerminalAt])
      /\ pollError.kind \notin {"timeout", "fetch"}) =>
       pollPc = "resolved"

\* [processing, processing, idle] with an interval of 10 ms
C19_Witness ==
  /\ plan = <<"processing", "processing", "idle">>
  /\ interval = 1
  /\ timeout = 5
  /\ pollPc = "resolved"
  /\ fetchCalls = 3
  /\ pollResult = [id |-> ResourceId, status |-> "idle", fetch |-> 3]

\* every fetch returns a non-terminal status
AllProcessing ==
  /\ pollPc # "idle"
  /\ TerminalAt = {}
  /\ pollError.kind # "fetch"

\* C20, as claimed: with non-terminal statuses only, the session never
\* resolves, does not poll forever (the number of fetches is bounded by the
\* timeout), and fails with a timeout error carrying the resource id and
\* the elapsed time, after which no fetch is issued; with a timeout of
\* 50 ms and an interval of 10 ms the failure comes after at least 5
\* fetches.
C20_TimesOutAfterFiveFetches ==
  AllProcessing =>
    /\ pollPc # "resolved"
    /\ fetchCalls <= (timeout \div interval) + 2
    /\ pollPc = "rejected" =>
         /\ pollError = TimeoutError(ResourceId, now)
         /\ now > timeout
         /\ ~ENABLED PollFetch
    /\ (pollPc = "rejected" /\ timeout = 5 /\ interval = 1) => fetchCalls >= 5

\* C20, amended: the same, the count of at least 5 fetches being claimed
\* for status fetches that return at once (no tick passes during a fetch).
C20_TimesOutAmended ==
  AllProcessing =>
    /\ pollPc # "resolved"
    /\ fetchCalls <= (timeout \div interval) + 2
    /\ pollPc = "rejected" =>
         /\ pollError = TimeoutError(ResourceId, now)
         /\ now > timeout
         /\ ~ENABLED PollFetch
    /\ (/\ pollPc = "rejected"
        /\ timeout = 5
        /\ interval = 1
        /\ now = (fetchCalls - 1) * interval) => fetchCalls >= 5

\* 50 ms, 10 ms, fetches that return at once: the timeout error comes at
\* the seventh fetch, 60 ms after the start
C20_Witness ==
  /\ AllProcessing
  /\ timeout = 5
  /\ interval = 1
  /\ pollPc = "rejected"
  /\ pollError = TimeoutError(ResourceId, 6)
  /\ fetchCalls = 7

\* C21: after the Effect returned by waitUntilIdle, pollUntilFinished or
\* waitUntilCompleted has been interrupted, the poll session starts no new
\* status fetch; at most the fetch in flight at that moment completes.
C21_NoFetchAfterInterrupt ==
  ~fetchAfterInterrupt

=============================================================================
